---- MODULE Spec2Model ----
(***************************************************************************)
(* KitchenFlow: recipe import and ingredient-normalisation pipeline.       *)
(*                                                                         *)
(*   backend/src/server.js      POST /api/recipes, PUT .../link,           *)
(*                              POST /api/recipes/import-url,              *)
(*                              POST /api/recipes/import-paprika,          *)
(*                              parseIngredientLine                        *)
(*   frontend/pages/AddRecipe.tsx          handleBatchImportPaprika, ...   *)
(*   frontend/pages/IngredientDetails.tsx  handleAutoMatch (RecipeDetail)  *)
(*   frontend/services/recipeService.ts, aiService.ts                      *)
(*                                                                         *)
(* Text that the code scans character by character (ingredient lines) is   *)
(* a sequence of one-character tokens; the non-ASCII characters of the     *)
(* source are written as named tokens (see Glyphs, "e_acute", ...).        *)
(* Text that the code only stores, copies or compares is a TLA+ string.    *)
(***************************************************************************)
EXTENDS Integers, Sequences, FiniteSets, TLC

\* null / undefined of a text-valued or list-valued field
Null == <<>>

\* null / undefined where the code expects an identifier (a string)
NullId == "<null>"

\* JavaScript truthiness of an identifier or of its absence
Truthy(id) == id # NullId /\ id # ""

(***************************************************************************)
(* Characters                                                              *)
(***************************************************************************)
Digits == {"0", "1", "2", "3", "4", "5", "6", "7", "8", "9"}

\* the keys of fractionMap
Glyphs == {"HALF", "QUARTER", "THREEQUARTERS", "THIRD", "TWOTHIRDS"}

Whitespace == {" "}

\* the character class of the regex's first group: [\d½¼¾⅓⅔.,/\s]
QuantityClass == Digits \cup Glyphs \cup {".", ",", "/"} \cup Whitespace

\* String.prototype.toLowerCase on one character (the /i flag of the regexes)
ToLower(c) ==
  CASE c = "G" -> "g"
    [] c = "K" -> "k"
    [] c = "L" -> "l"
    [] c = "C" -> "c"
    [] c = "D" -> "d"
    [] c = "O" -> "o"
    [] c = "A" -> "a"
    [] c = "E" -> "e"
    [] c = "F" -> "f"
    [] c = "I" -> "i"
    [] c = "N" -> "n"
    [] c = "P" -> "p"
    [] c = "S" -> "s"
    [] c = "T" -> "t"
    [] c = "U" -> "u"
    [] OTHER -> c

LowerSeq(s) == [k \in 1..Len(s) |-> ToLower(s[k])]

Drop(s, k) == SubSeq(s, k + 1, Len(s))

Take(s, k) == SubSeq(s, 1, k)

\* number of leading characters of s that belong to class
RECURSIVE LeadingIn(_, _)
LeadingIn(s, class) ==
  IF s # <<>> /\ Head(s) \in class THEN 1 + LeadingIn(Tail(s), class) ELSE 0

RECURSIVE TrailingIn(_, _)
TrailingIn(s, class) ==
  IF s # <<>> /\ s[Len(s)] \in class
  THEN 1 + TrailingIn(Take(s, Len(s) - 1), class) ELSE 0

\* String.prototype.trim
Trim(s) ==
  LET a == LeadingIn(s, Whitespace)
  IN  IF a = Len(s) THEN <<>>
      ELSE SubSeq(s, a + 1, Len(s) - TrailingIn(s, Whitespace))

\* s.startsWith(p), compared case-insensitively
StartsWithI(s, p) ==
  /\ Len(s) >= Len(p)
  /\ LowerSeq(Take(s, Len(p))) = LowerSeq(p)

\* s.includes(p), compared case-insensitively
ContainsI(s, p) ==
  \E k \in 0..(Len(s) - Len(p)) : StartsWithI(Drop(s, k), p)

\* index of the first occurrence of character c in s, 0 when there is none
IndexOf(s, c) ==
  IF \E k \in 1..Len(s) : s[k] = c
  THEN CHOOSE k \in 1..Len(s) : s[k] = c /\ \A j \in 1..(k - 1) : s[j] # c
  ELSE 0

(***************************************************************************)
(* Numbers: a JavaScript number is a pair <<numerator, denominator>>: a     *)
(* non-negative rational in lowest terms, NaN or Infinity.                 *)
(***************************************************************************)
NaN == <<0, 0>>

Infinity == <<1, 0>>

IsFinite(x) == x # Null /\ x[2] # 0

RECURSIVE Gcd(_, _)
Gcd(a, b) == IF b = 0 THEN a ELSE Gcd(b, a % b)

Rat(n, d) == LET g == Gcd(n, d) IN <<n \div g, d \div g>>

DigitVal(c) ==
  CASE c = "0" -> 0 [] c = "1" -> 1 [] c = "2" -> 2 [] c = "3" -> 3
    [] c = "4" -> 4 [] c = "5" -> 5 [] c = "6" -> 6 [] c = "7" -> 7
    [] c = "8" -> 8 [] c = "9" -> 9

RECURSIVE DigitsVal(_)
DigitsVal(ds) ==
  IF ds = <<>> THEN 0 ELSE 10 * DigitsVal(Take(ds, Len(ds) - 1)) + DigitVal(ds[Len(ds)])

RECURSIVE Pow10(_)
Pow10(k) == IF k = 0 THEN 1 ELSE 10 * Pow10(k - 1)

\* parseFloat on a string of quantity characters: leading white space is
\* skipped, then the longest prefix digits[.digits] is read; NaN without digit
ParseFloat(str) ==
  LET s    == Drop(str, LeadingIn(str, Whitespace))
      ni   == LeadingIn(s, Digits)
      rest == Drop(s, ni)
      nf   == IF rest # <<>> /\ Head(rest) = "." THEN LeadingIn(Tail(rest), Digits) ELSE 0
  IN  IF ni + nf = 0 THEN NaN
      ELSE Rat(DigitsVal(Take(s, ni)) * Pow10(nf) + DigitsVal(SubSeq(rest, 2, nf + 1)),
               Pow10(nf))

\* JavaScript division of two parseFloat results
JsDivide(a, b) ==
  IF a = NaN \/ b = NaN THEN NaN
  ELSE IF b[1] = 0 THEN (IF a[1] = 0 THEN NaN ELSE Infinity)
  ELSE Rat(a[1] * b[2], a[2] * b[1])

fractionMap(c) ==
  CASE c = "HALF" -> <<1, 2>>
    [] c = "QUARTER" -> <<1, 4>>
    [] c = "THREEQUARTERS" -> <<3, 4>>
    [] c = "THIRD" -> <<333, 1000>>
    [] c = "TWOTHIRDS" -> <<667, 1000>>

\* str.replace(',', '.'): the first comma only
ReplaceFirstComma(s) ==
  LET k == IndexOf(s, ",")
  IN  IF k = 0 THEN s ELSE [j \in 1..Len(s) |-> IF j = k THEN "." ELSE s[j]]

\* parseFraction; group is the text of the regex's first group, Null when
\* the group did not take part in the match
parseFraction(group) ==
  IF group = Null THEN Null
  ELSE LET str == Trim(group)
       IN  IF Len(str) = 1 /\ str[1] \in Glyphs THEN fractionMap(str[1])
           ELSE IF IndexOf(str, "/") # 0
           THEN LET k1    == IndexOf(str, "/")
                    after == Drop(str, k1)
                    k2    == IndexOf(after, "/")
                    num   == Take(str, k1 - 1)
                    den   == IF k2 = 0 THEN after ELSE Take(after, k2 - 1)
                IN  JsDivide(ParseFloat(num), ParseFloat(den))
           ELSE LET val == ParseFloat(ReplaceFirstComma(str))
                IN  IF val = NaN THEN Null ELSE val

(***************************************************************************)
(* parseIngredientLine (server.js)                                         *)
(***************************************************************************)
\* the alternatives of the regex's unit group, in the order of the pattern
UnitLexicon == <<
  <<"g">>,
  <<"k", "g">>,
  <<"m", "l">>,
  <<"c", "l">>,
  <<"d", "l">>,
  <<"l">>,
  <<"c", ".", "s", ".">>,
  <<"c", ".", "c", ".">>,
  <<"c", ".", "a_grave", ".", "s", ".">>,
  <<"c", ".", "a_grave", ".", "c", ".">>,
  <<"b", "o", "u", "q", "u", "e", "t">>,
  <<"c", "m">>,
  <<"p", "i", "n", "c", "e_acute", "e">>,
  <<"p", "i", "n", "c", "e", "e">>,
  <<"g", "o", "u", "s", "s", "e">>,
  <<"g", "o", "u", "s", "s", "e", "s">>,
  <<"b", "r", "a", "n", "c", "h", "e">>,
  <<"b", "r", "a", "n", "c", "h", "e", "s">>,
  <<"f", "e", "u", "i", "l", "l", "e">>,
  <<"f", "e", "u", "i", "l", "l", "e", "s">>,
  <<"t", "r", "a", "n", "c", "h", "e">>,
  <<"t", "r", "a", "n", "c", "h", "e", "s">>,
  <<"b", "o", "t", "t", "e">>,
  <<"b", "o", "t", "t", "e", "s">>,
  <<"s", "a", "c", "h", "e", "t">>,
  <<"s", "a", "c", "h", "e", "t", "s">>,
  <<"c", "u", "i", "l", "l", "e_grave", "r", "e">>,
  <<"c", "u", "i", "l", "l", "e_grave", "r", "e", "s">>,
  <<"v", "e", "r", "r", "e">>,
  <<"v", "e", "r", "r", "e", "s">>,
  <<"t", "a", "s", "s", "e">>,
  <<"t", "a", "s", "s", "e", "s">>,
  <<"p", "o", "i", "g", "n", "e_acute", "e">>,
  <<"p", "o", "i", "g", "n", "e", "e", "s">> >>

\* the alternatives of the regex's connector group, in the order of the pattern
Connectors == <<
  <<"d", "e", " ">>,
  <<"d", "'">>,
  <<"d", "'">>,
  <<"d", "u", " ">>,
  <<"d", "e", "s", " ">>,
  <<"l", "a", " ">>,
  <<"l", "e", " ">>,
  <<"l", "'">>,
  <<"l", "'">> >>

\* An optional group (alt1|alt2|...)? of a backtracking matcher whose
\* continuation succeeds exactly when at least one character is left: the
\* index of the first alternative that is a prefix of s (case-insensitive)
\* and leaves text behind it, 0 when the group is skipped.
FirstAlternative(s, alts) ==
  LET ok(k) == StartsWithI(s, alts[k]) /\ Len(s) > Len(alts[k])
  IN  IF \E k \in 1..Len(alts) : ok(k)
      THEN CHOOSE k \in 1..Len(alts) : ok(k) /\ \A j \in 1..(k - 1) : ~ok(j)
      ELSE 0

\* a greedy \s* of the same matcher: all leading white space, but never the
\* last character of s
GreedySpaces(s) ==
  LET a == LeadingIn(s, Whitespace) IN IF a >= Len(s) THEN Len(s) - 1 ELSE a

\* the test without the i flag
IsOptionalCaseSensitive(cleaned) ==
  LET has(p) == \E k \in 0..(Len(cleaned) - Len(p)) :
                  SubSeq(cleaned, k + 1, k + Len(p)) = p
  IN  \/ has(<<"o", "p", "t", "i", "o", "n", "n", "e", "l">>)
      \/ has(<<"f", "a", "c", "u", "l", "t", "a", "t", "i", "f">>)
      \/ has(<<"?">>)

\* /optionnel|facultatif|\?/i.test(cleaned)
IsOptional(cleaned) ==
  \/ ContainsI(cleaned, <<"o", "p", "t", "i", "o", "n", "n", "e", "l">>)
  \/ ContainsI(cleaned, <<"f", "a", "c", "u", "l", "t", "a", "t", "i", "f">>)
  \/ ContainsI(cleaned, <<"?">>)

\* cleaned.match(/^([\d...\s]+)?\s*(unit)?\s*(?:connector)?\s*(.+)/i) for a
\* non-empty trimmed line without line terminators: the groups 1, 2 and 3
IngredientMatch(cleaned) ==
  LET m     == LeadingIn(cleaned, QuantityClass)
      \* group 1 is greedy and gives back one character when it took the whole line
      g1    == IF m < Len(cleaned) THEN m ELSE m - 1
      r1    == Drop(cleaned, g1)
      r2    == Drop(r1, GreedySpaces(r1))
      u     == FirstAlternative(r2, UnitLexicon)
      ulen  == IF u = 0 THEN 0 ELSE Len(UnitLexicon[u])
      r3    == Drop(r2, ulen)
      r4    == Drop(r3, GreedySpaces(r3))
      c     == FirstAlternative(r4, Connectors)
      r5    == Drop(r4, IF c = 0 THEN 0 ELSE Len(Connectors[c]))
      r6    == Drop(r5, GreedySpaces(r5))
  IN  [g1 |-> IF g1 = 0 THEN Null ELSE Take(cleaned, g1),
       g2 |-> IF u = 0 THEN Null ELSE Take(r2, ulen),
       g3 |-> r6]

\* a parser that keeps the text of a line of white space as the name
parseIngredientLineKeepsBlank(line) ==
  IF Trim(line) = <<>>
  THEN [name |-> line, amount |-> Null, unit |-> Null, optional |-> FALSE]
  ELSE LET cleaned == Trim(line)
           match   == IngredientMatch(cleaned)
       IN  [amount   |-> parseFraction(match.g1),
            unit     |-> match.g2,
            name     |-> Trim(match.g3),
            optional |-> IsOptional(cleaned)]

\* parseIngredientLine: the regex matches every non-empty trimmed line and
\* its third group is never empty, so the return after the if is not taken
parseIngredientLine(line) ==
  IF Trim(line) = <<>>
  THEN [name |-> <<>>, amount |-> Null, unit |-> Null, optional |-> FALSE]
  ELSE LET cleaned == Trim(line)
           match   == IngredientMatch(cleaned)
       IN  [amount   |-> parseFraction(match.g1),
            unit     |-> match.g2,
            name     |-> Trim(match.g3),
            optional |-> IsOptional(cleaned)]

(***************************************************************************)
(* parseTime (server.js): the duration texts of a JSON-LD Recipe           *)
(***************************************************************************)
\* parseInt of str.match(/(\d+)/): the first run of digits of str, 0 when str
\* holds no digit
FirstDigitRun(str) ==
  LET k == LeadingIn(str, {str[j] : j \in 1..Len(str)} \ Digits)
      r == Drop(str, k)
  IN  IF r = <<>> THEN 0 ELSE DigitsVal(Take(r, LeadingIn(r, Digits)))

\* iso.match(/PT(?:(\d+)H)?(?:(\d+)M)?/) succeeds at the first "PT" of iso,
\* wherever it stands and whatever follows it; each group is the run of
\* digits that stands right before an H, then before an M
parseTime(iso) ==
  IF iso = <<>> THEN 0
  ELSE LET at == {k \in 1..(Len(iso) - 1) : iso[k] = "P" /\ iso[k + 1] = "T"}
       IN  IF at # {}
           THEN LET k    == CHOOSE k \in at : \A j \in at : k <= j
                    r0   == Drop(iso, k + 1)
                    nh   == LeadingIn(r0, Digits)
                    hasH == nh > 0 /\ nh < Len(r0) /\ r0[nh + 1] = "H"
                    r1   == IF hasH THEN Drop(r0, nh + 1) ELSE r0
                    nm   == LeadingIn(r1, Digits)
                    hasM == nm > 0 /\ nm < Len(r1) /\ r1[nm + 1] = "M"
                IN  (IF hasH THEN DigitsVal(Take(r0, nh)) ELSE 0) * 60
                      + (IF hasM THEN DigitsVal(Take(r1, nm)) ELSE 0)
           ELSE FirstDigitRun(iso)

(***************************************************************************)
(* JSON transport: JSON.stringify turns NaN and Infinity into null         *)
(* (res.json on the server, JSON.stringify(recipe) in createRecipe).       *)
(***************************************************************************)
JsonNumber(x) == IF x = Null \/ x[2] = 0 THEN Null ELSE x

JsonIngredient(ing) == [ing EXCEPT !.amount = JsonNumber(ing.amount)]

\* a property whose value is a function is left out by JSON.stringify: the
\* reader finds undefined, written "" here
JsonImportResult(r) ==
  [r EXCEPT !.ingredients = [k \in 1..Len(r.ingredients) |-> JsonIngredient(r.ingredients[k])],
            !.recipe = IF "category" \in DOMAIN @ /\ @.category = "function Object"
                       THEN [@ EXCEPT !.category = ""] ELSE @]

(***************************************************************************)
(* POST /api/recipes/import-paprika: the loop over the archive entries.    *)
(*                                                                         *)
(* An archive entry is [entryName, data]: entryName is <<base, extension>>, *)
(* data.kind tells how far decoding gets:                                  *)
(*   "gzip_error"  gunzipSync throws                                       *)
(*   "json_error"  JSON.parse throws                                       *)
(*   "json_null"   the JSON value is null: reading paprika.ingredients     *)
(*                 throws                                                  *)
(*   "json_object" a record in the vendor's schema                         *)
(* data.ingredients is the ingredients blob as the list of its lines       *)
(* (split on "\n"), data.categories the list of category tags, both as     *)
(* lower-cased by the code.                                                *)
(***************************************************************************)
RecipeExtension == ".paprikarecipe"

\* entry.entryName.endsWith('.paprikarecipe')
IsRecipeEntry(entry) == entry.entryName[2] = RecipeExtension

\* does the body of the try block throw on this entry
DecodeThrows(entry) == entry.data.kind # "json_object"

\* paprikaCategory.toLowerCase() on the tags of the model
TagToLowerCase(tag) ==
  CASE tag = "Dessert" -> "dessert"
    [] tag = "MAIN" -> "main"
    [] tag = "Sauces" -> "sauces"
    [] OTHER -> tag

\* categoryMap[tag] || 'PLAT': categoryMap is an object literal, so a tag
\* that names a member inherited from Object.prototype finds that member,
\* which is truthy ("constructor" finds the function Object)
categoryMap(tag) ==
  CASE tag = "constructor" -> "function Object"
    [] tag \in {"entre_acutee", "entree", "starter", "appetizer"} -> "ENTREE"
    [] tag \in {"plat", "main", "dinner", "lunch"} -> "PLAT"
    [] tag \in {"dessert", "desserts"} -> "DESSERT"
    [] tag \in {"sauce", "sauces"} -> "SAUCE"
    [] tag \in {"accompagnement", "side"} -> "ACCOMPAGNEMENT"
    [] tag \in {"boisson", "drink", "beverage"} -> "BOISSON"
    [] tag \in {"snack", "en-cas"} -> "SNACK"
    [] OTHER -> "PLAT"

\* the ImportResult pushed for one decoded entry (recipes.push({...}))
PaprikaImportResult(paprika) ==
  LET lines == SelectSeq(paprika.ingredients, LAMBDA line : Trim(line) # <<>>)
  IN  [recipe |-> [name       |-> IF paprika.name = "" THEN "Sans nom" ELSE paprika.name,
                   category   |-> categoryMap(TagToLowerCase(
                                   IF paprika.categories = <<>> THEN ""
                                   ELSE paprika.categories[1])),
                   \* parseTimeStr: 0 for no text, else the first run of digits
                   prepTime   |-> FirstDigitRun(paprika.prep_time),
                   cookTime   |-> FirstDigitRun(paprika.cook_time),
                   \* servingsMatch ? parseInt(servingsMatch[1]) : 4
                   servings   |-> IF \E k \in 1..Len(paprika.servings) :
                                        paprika.servings[k] \in Digits
                                  THEN FirstDigitRun(paprika.servings) ELSE 4,
                   source     |-> "IMPORTED",
                   isFavorite |-> paprika.rating > 3],
       ingredients |-> [k \in 1..Len(lines) |-> parseIngredientLine(Trim(lines[k]))],
       confidence  |-> "MEDIUM",
       parseMethod |-> "PAPRIKA"]

\* for (const entry of entries) { if (...endsWith...) { try {...} catch {...} } }
RECURSIVE PaprikaLoop(_)
PaprikaLoop(entries) ==
  IF entries = <<>> THEN <<>>
  ELSE LET entry == Head(entries)
           rest  == PaprikaLoop(Tail(entries))
       IN  IF IsRecipeEntry(entry) /\ ~DecodeThrows(entry)
           THEN <<PaprikaImportResult(entry.data)>> \o rest
           ELSE rest

(***************************************************************************)
(* Inputs of the model                                                     *)
(***************************************************************************)
\* ingredient lines: "2 kg riz", "sel", "0 g x", "1/0 x", " "
SampleLines == {
  <<"2", " ", "k", "g", " ", "r", "i", "z">>,
  <<"s", "e", "l">>,
  <<"0", " ", "g", " ", "x">>,
  <<"1", "/", "0", " ", "x">>,
  <<" ">> }

\* decoded entry payloads in the vendor's schema
SamplePayloads == {
  [kind |-> "json_object", name |-> "Soupe", rating |-> 5, categories |-> <<"Dessert">>,
   ingredients |-> << <<"2", " ", "k", "g", " ", "r", "i", "z">>, <<"s", "e", "l">> >>,
   servings |-> <<"0", ",", "5", " ", "l">>,
   prep_time |-> <<"1", "0", " ", "m", "i", "n">>, cook_time |-> <<"1", " ", "h", " ", "3", "0">>],
  [kind |-> "json_object", name |-> "", rating |-> 0, categories |-> <<>>,
   ingredients |-> <<>>, servings |-> <<>>, prep_time |-> <<>>, cook_time |-> <<>>],
  [kind |-> "json_object", name |-> "Tarte", rating |-> 3, categories |-> <<"constructor", "side">>,
   ingredients |-> << <<" ">>, <<"1", "/", "0", " ", "x">>, <<"0", " ", "g", " ", "x">> >>,
   servings |-> <<"p", "o", "u", "r", " ", "6">>,
   prep_time |-> <<"m", "i", "n">>, cook_time |-> <<"0">>] }

\* entries whose decoding throws
BrokenPayload(kind) ==
  [kind |-> kind, name |-> "", rating |-> 0, categories |-> <<>>, ingredients |-> <<>>,
   servings |-> <<>>, prep_time |-> <<>>, cook_time |-> <<>>]

SampleEntries ==
  {[entryName |-> <<"a", RecipeExtension>>, data |-> p] : p \in SamplePayloads}
  \cup {[entryName |-> <<"b", RecipeExtension>>, data |-> BrokenPayload(k)] :
          k \in {"gzip_error", "json_error", "json_null"}}
  \cup {[entryName |-> <<"c", ".json">>, data |-> CHOOSE p \in SamplePayloads : p.name = "Soupe"]}

RECURSIVE SeqsUpTo(_, _)
\* the sequences over S of length at most n
SeqsUpTo(S, n) ==
  IF n = 0 THEN {<<>>}
  ELSE LET shorter == SeqsUpTo(S, n - 1)
       IN  shorter \cup {Append(q, x) : q \in {t \in shorter : Len(t) = n - 1}, x \in S}


(***************************************************************************)
(* Bounds                                                                  *)
(***************************************************************************)
\* batch import: number of runs of handleBatchImportPaprika
MaxRuns == 1

\* archive import: number of entries of an archive
MaxEntries == 3

\* reconcile: ingredient lines of the recipe, candidates returned by the
\* matching model
MaxLines == 2

MaxMatches == 2

(***************************************************************************)
(* State                                                                   *)
(***************************************************************************)
VARIABLES
  \* AddRecipe page (AddRecipe.tsx); an optional value is a sequence of
  \* length 0 (null) or 1
  paprikaCandidates,      \* useState<PaprikaCandidate[]>
  paprikaBatchProgress,   \* useState<{current, total} | null>
  error,                  \* useState(''): the message shown to the user
  selected,               \* handleBatchImportPaprika: const selected
  i,                      \* handleBatchImportPaprika: the loop index, from 1
  batchPc,                \* "idle", "awaitCreate", "navigated"
  runs,                   \* number of runs of handleBatchImportPaprika so far
  \* createRecipe calls of the current run, POST /api/recipes transactions
  calls,
  \* the store (tables recipes and recipe_ingredients, committed rows)
  recipes,
  recipe_ingredients,
  ingredients,            \* table ingredients: the ids of the inventory rows
  \* RecipeDetail page (IngredientDetails.tsx)
  recipe,                 \* useState<RecipeWithIngredients>: the loaded recipe
  inventoryIngredients,   \* useIngredients(): the inventory snapshot of the page
  matching,               \* useState(false)
  matchMessage,           \* useState(''): "", or the kind of message shown
  linkPc,                 \* "idle", "awaitMatch", "loop", "awaitLink", "awaitLoad", "done"
  matches,                \* handleAutoMatch: const matches
  m,                      \* handleAutoMatch: position of the for-of loop, from 1
  linked,                 \* handleAutoMatch: let linked
  linkCalls,              \* the linkRecipeIngredient calls of the run, in order
  modelCalled,            \* the run has sent a prompt to the matching model
  detailError,            \* useState(''): the error shown instead of the recipe
  \* AddRecipe page: the import tabs
  activeTab,              \* useState<ImportTab>('manual')
  importUrl,              \* useState(''): the text of the URL field
  importingUrl,           \* useState(false)
  rawText,                \* useState(''): the text area of the text tab
  parsingText,            \* useState(false)
  paprikaFile,            \* useState<File | null>
  importingPaprika,       \* useState(false)
  toast,                  \* useState('')
  form,                   \* the form state: name, category, sourceUrl, ingredients
  textResult,             \* handleParseText: the ImportResult handed to populateFromImport
  \* requests in flight: POST /api/recipes/import-url, POST /api/recipes/import-paprika
  urlRequest,
  fetchResponse,          \* import-url: const response, what fetch(url) resolved with
  html,                   \* import-url: const html, the document that was fetched
  urlResponse,
  paprikaRequest,
  paprikaResponse,
  \* a call of one of the server's parsing helpers
  parseCall,              \* the helper and its argument
  parseResult             \* what the call returned, once it has returned

batchVars == <<paprikaCandidates, paprikaBatchProgress, error, selected, i, batchPc,
               runs, calls, recipes, recipe_ingredients>>

storeVars == <<ingredients>>

linkVars == <<recipe, inventoryIngredients, matching, matchMessage, linkPc, matches, m,
              linked, linkCalls, modelCalled, detailError>>

importVars == <<activeTab, importUrl, importingUrl, rawText, parsingText, paprikaFile,
                importingPaprika, toast, form, textResult, urlRequest, fetchResponse, html,
                urlResponse, paprikaRequest, paprikaResponse>>

parseVars == <<parseCall, parseResult>>

vars == <<batchVars, storeVars, linkVars, importVars, parseVars>>

(***************************************************************************)
(* AddRecipe page: candidate selection                                     *)
(***************************************************************************)
\* the candidate list is rendered only while
\* paprikaCandidates.length > 0 && !paprikaBatchProgress
CandidateListShown ==
  /\ batchPc # "navigated"
  /\ Len(paprikaCandidates) > 0
  /\ paprikaBatchProgress = <<>>

togglePaprikaCandidate(index) ==
  /\ CandidateListShown
  /\ index \in 1..Len(paprikaCandidates)
  /\ paprikaCandidates' =
       [paprikaCandidates EXCEPT ![index].selected = ~paprikaCandidates[index].selected]
  /\ UNCHANGED <<paprikaBatchProgress, error, selected, i, batchPc, runs, calls,
                 recipes, recipe_ingredients,
                 storeVars, linkVars, importVars, parseVars>>

selectAllPaprika(sel) ==
  /\ CandidateListShown
  /\ paprikaCandidates' =
       [k \in 1..Len(paprikaCandidates) |-> [paprikaCandidates[k] EXCEPT !.selected = sel]]
  /\ UNCHANGED <<paprikaBatchProgress, error, selected, i, batchPc, runs, calls,
                 recipes, recipe_ingredients,
                 storeVars, linkVars, importVars, parseVars>>

(***************************************************************************)
(* handleBatchImportPaprika (AddRecipe.tsx) and createRecipe               *)
(***************************************************************************)
\* the argument of createRecipe for one candidate; isFavorite is not passed
CreateRecipeBody(result) ==
  [name        |-> IF result.recipe.name = "" THEN "Recette sans nom" ELSE result.recipe.name,
   category    |-> result.recipe.category,
   ingredients |-> [k \in 1..Len(result.ingredients) |->
                      [name     |-> result.ingredients[k].name,
                       amount   |-> JsonNumber(result.ingredients[k].amount),
                       unit     |-> result.ingredients[k].unit,
                       optional |-> result.ingredients[k].optional]],
   source      |-> "IMPORTED"]

\* one createRecipe call: fetch POST /api/recipes with the body
NewCall(item, body) ==
  [item |-> item, body |-> body, state |-> "sent", row |-> <<>>, lines |-> <<>>]

\* BatchIteration reporting the progress of the items already created only
BatchIterationCountsDone(sel, idx, done) ==
  /\ paprikaBatchProgress' = <<[current |-> idx - 1, total |-> Len(sel)]>>
  /\ calls' = Append(done, NewCall(idx, CreateRecipeBody(sel[idx].importResult)))
  /\ i' = idx
  /\ batchPc' = "awaitCreate"

\* one iteration of the for loop up to its await: the progress is set, then
\* createRecipe is called; done is the list of the calls made so far
BatchIteration(sel, idx, done) ==
  /\ paprikaBatchProgress' = <<[current |-> idx, total |-> Len(sel)]>>
  /\ calls' = Append(done, NewCall(idx, CreateRecipeBody(sel[idx].importResult)))
  /\ i' = idx
  /\ batchPc' = "awaitCreate"

\* handleBatchImportPaprika creating all selected candidates at once
handleBatchImportPaprikaAtOnce ==
  /\ Len(paprikaCandidates) > 0
  /\ paprikaBatchProgress = <<>>
  /\ batchPc = "idle"
  /\ runs < MaxRuns
  /\ LET sel == SelectSeq(paprikaCandidates, LAMBDA c : c.selected)
     IN  /\ Len(sel) # 0
         /\ selected' = sel
         /\ error' = ""
         /\ runs' = runs + 1
         /\ paprikaBatchProgress' = <<[current |-> Len(sel), total |-> Len(sel)]>>
         /\ calls' = [k \in 1..Len(sel) |->
                        NewCall(k, CreateRecipeBody(sel[k].importResult))]
         /\ i' = Len(sel)
         /\ batchPc' = "awaitCreate"
  /\ UNCHANGED <<paprikaCandidates, recipes, recipe_ingredients,
                 storeVars, linkVars, importVars, parseVars>>

\* click on "Importer n recettes": the handler up to its first await
handleBatchImportPaprika ==
  /\ CandidateListShown
  /\ batchPc = "idle"
  /\ runs < MaxRuns
  /\ LET sel == SelectSeq(paprikaCandidates, LAMBDA c : c.selected)
     IN  /\ Len(sel) # 0
         /\ selected' = sel
         /\ error' = ""
         /\ runs' = runs + 1
         /\ BatchIteration(sel, 1, <<>>)
  /\ UNCHANGED <<paprikaCandidates, recipes, recipe_ingredients,
                 storeVars, linkVars, importVars, parseVars>>

\* the call the handler is awaiting
AwaitedCall == Len(calls)

\* await createRecipe(...) returns: next iteration, or navigate('/recipes')
BatchCreateResolved ==
  /\ batchPc = "awaitCreate"
  /\ calls[AwaitedCall].state = "committed"
  /\ IF i + 1 <= Len(selected)
     THEN BatchIteration(selected, i + 1, [calls EXCEPT ![AwaitedCall].state = "resolved"])
     ELSE /\ calls' = [calls EXCEPT ![AwaitedCall].state = "resolved"]
          /\ batchPc' = "navigated"
          /\ UNCHANGED <<paprikaBatchProgress, i>>
  /\ UNCHANGED <<paprikaCandidates, error, selected, runs, recipes, recipe_ingredients,
                 storeVars, linkVars, importVars, parseVars>>

\* a catch that skips the failed item and goes on with the next one
BatchCreateRejectedGoesOn ==
  /\ batchPc = "awaitCreate"
  /\ calls[AwaitedCall].state = "rolledback"
  /\ error' = "API Error: 500"
  /\ IF i + 1 <= Len(selected)
     THEN BatchIteration(selected, i + 1, [calls EXCEPT ![AwaitedCall].state = "rejected"])
     ELSE /\ calls' = [calls EXCEPT ![AwaitedCall].state = "rejected"]
          /\ paprikaBatchProgress' = <<>>
          /\ batchPc' = "idle"
          /\ UNCHANGED i
  /\ UNCHANGED <<paprikaCandidates, selected, runs, recipes, recipe_ingredients,
                 storeVars, linkVars, importVars, parseVars>>

\* a rejection that is swallowed: the handler neither goes on nor reports
BatchCreateRejectedHangs ==
  /\ batchPc = "awaitCreate"
  /\ calls[AwaitedCall].state = "rolledback"
  /\ calls' = [calls EXCEPT ![AwaitedCall].state = "rejected"]
  /\ UNCHANGED <<error, paprikaBatchProgress, batchPc, paprikaCandidates, selected, i, runs,
                 recipes, recipe_ingredients, storeVars, linkVars, importVars, parseVars>>

\* a catch that leaves the progress as it is
BatchCreateRejectedKeepsProgress ==
  /\ batchPc = "awaitCreate"
  /\ calls[AwaitedCall].state = "rolledback"
  /\ calls' = [calls EXCEPT ![AwaitedCall].state = "rejected"]
  /\ error' = "API Error: 500"
  /\ batchPc' = "idle"
  /\ UNCHANGED <<paprikaBatchProgress, paprikaCandidates, selected, i, runs, recipes,
                 recipe_ingredients, storeVars, linkVars, importVars, parseVars>>

\* await createRecipe(...) throws (handleResponse on a non-ok response): catch
BatchCreateRejected ==
  /\ batchPc = "awaitCreate"
  /\ calls[AwaitedCall].state = "rolledback"
  /\ calls' = [calls EXCEPT ![AwaitedCall].state = "rejected"]
  /\ error' = "API Error: 500"
  /\ paprikaBatchProgress' = <<>>
  /\ batchPc' = "idle"
  /\ UNCHANGED <<paprikaCandidates, selected, i, runs, recipes, recipe_ingredients,
                 storeVars, linkVars, importVars, parseVars>>

(***************************************************************************)
(* POST /api/recipes (server.js): one transaction per call                 *)
(***************************************************************************)
\* pool.connect(), BEGIN
ServerCreateBegin(c) ==
  /\ c \in 1..Len(calls)
  /\ calls[c].state = "sent"
  /\ calls' = [calls EXCEPT ![c].state = "begun"]
  /\ UNCHANGED <<paprikaCandidates, paprikaBatchProgress, error, selected, i, batchPc,
                 runs, recipes, recipe_ingredients,
                 storeVars, linkVars, importVars, parseVars>>

\* INSERT INTO recipes ... RETURNING *
ServerInsertRecipe(c) ==
  /\ c \in 1..Len(calls)
  /\ calls[c].state = "begun"
  /\ calls[c].row = <<>>
  /\ LET body == calls[c].body
     IN  calls' = [calls EXCEPT ![c].row =
                     <<[id          |-> <<runs, calls[c].item>>,
                        name        |-> body.name,
                        category    |-> IF body.category = "" THEN "PLAT" ELSE body.category,
                        source      |-> IF body.source = "" THEN "MANUAL" ELSE body.source,
                        is_favorite |-> IF "isFavorite" \in DOMAIN body
                                        THEN body.isFavorite ELSE FALSE]>>]
  /\ UNCHANGED <<paprikaCandidates, paprikaBatchProgress, error, selected, i, batchPc,
                 runs, recipes, recipe_ingredients,
                 storeVars, linkVars, importVars, parseVars>>

\* ing.amount || null: 0 is stored as null
AmountOrNull(x) == IF x = Null \/ x[1] = 0 THEN Null ELSE x

\* the loop numbering the lines from the last one
ServerInsertIngredientReversed(c) ==
  /\ c \in 1..Len(calls)
  /\ calls[c].state = "begun"
  /\ calls[c].row # <<>>
  /\ Len(calls[c].lines) < Len(calls[c].body.ingredients)
  /\ LET k   == Len(calls[c].lines)
         ing == calls[c].body.ingredients[k + 1]
     IN  calls' = [calls EXCEPT ![c].lines = Append(@,
                     [id            |-> <<calls[c].row[1].id, k>>,
                      recipe_id     |-> calls[c].row[1].id,
                      ingredient_id |-> NullId,
                      name          |-> ing.name,
                      amount        |-> AmountOrNull(ing.amount),
                      unit          |-> ing.unit,
                      is_optional   |-> ing.optional,
                      sort_order    |-> Len(calls[c].body.ingredients) - 1 - k])]
  /\ UNCHANGED <<paprikaCandidates, paprikaBatchProgress, error, selected, i, batchPc,
                 runs, recipes, recipe_ingredients,
                 storeVars, linkVars, importVars, parseVars>>

\* one iteration of the loop INSERT INTO recipe_ingredients, sort_order = i
ServerInsertIngredient(c) ==
  /\ c \in 1..Len(calls)
  /\ calls[c].state = "begun"
  /\ calls[c].row # <<>>
  /\ Len(calls[c].lines) < Len(calls[c].body.ingredients)
  /\ LET k   == Len(calls[c].lines)
         ing == calls[c].body.ingredients[k + 1]
     IN  calls' = [calls EXCEPT ![c].lines = Append(@,
                     [id            |-> <<calls[c].row[1].id, k>>,
                      recipe_id     |-> calls[c].row[1].id,
                      ingredient_id |-> NullId,
                      name          |-> ing.name,
                      amount        |-> AmountOrNull(ing.amount),
                      unit          |-> ing.unit,
                      is_optional   |-> ing.optional,
                      sort_order    |-> k])]
  /\ UNCHANGED <<paprikaCandidates, paprikaBatchProgress, error, selected, i, batchPc,
                 runs, recipes, recipe_ingredients,
                 storeVars, linkVars, importVars, parseVars>>

\* COMMIT, res.status(201)
ServerCommit(c) ==
  /\ c \in 1..Len(calls)
  /\ calls[c].state = "begun"
  /\ calls[c].row # <<>>
  /\ Len(calls[c].lines) = Len(calls[c].body.ingredients)
  /\ recipes' = Append(recipes, calls[c].row[1])
  /\ recipe_ingredients' = recipe_ingredients \o calls[c].lines
  /\ calls' = [calls EXCEPT ![c].state = "committed"]
  /\ UNCHANGED <<paprikaCandidates, paprikaBatchProgress, error, selected, i, batchPc, runs,
                 storeVars, linkVars, importVars, parseVars>>

\* a handler without a transaction: the rows inserted before the query that
\* throws stay in the store
ServerCreateErrorKeepsRows(c) ==
  /\ c \in 1..Len(calls)
  /\ calls[c].state = "begun"
  /\ recipes' = recipes \o calls[c].row
  /\ recipe_ingredients' = recipe_ingredients \o calls[c].lines
  /\ calls' = [calls EXCEPT ![c].state = "rolledback", ![c].row = <<>>, ![c].lines = <<>>]
  /\ UNCHANGED <<paprikaCandidates, paprikaBatchProgress, error, selected, i, batchPc,
                 runs, storeVars, linkVars, importVars, parseVars>>

\* a query of the transaction throws: catch, ROLLBACK, res.status(500)
ServerCreateError(c) ==
  /\ c \in 1..Len(calls)
  /\ calls[c].state = "begun"
  /\ calls' = [calls EXCEPT ![c].state = "rolledback", ![c].row = <<>>, ![c].lines = <<>>]
  /\ UNCHANGED <<paprikaCandidates, paprikaBatchProgress, error, selected, i, batchPc,
                 runs, recipes, recipe_ingredients,
                 storeVars, linkVars, importVars, parseVars>>

(***************************************************************************)
(* GET /api/recipes/:id (server.js) and loadRecipe                         *)
(***************************************************************************)
RECURSIVE OrderBySortOrder(_)
\* ORDER BY ri.sort_order, for a set of rows with distinct sort orders
OrderBySortOrder(rows) ==
  IF rows = {} THEN <<>>
  ELSE LET first == CHOOSE r \in rows : \A q \in rows : r.sort_order <= q.sort_order
       IN  <<first>> \o OrderBySortOrder(rows \ {first})

\* the response of GET /api/recipes/:id for an existing recipe
GetRecipe(id) ==
  LET rows  == {recipe_ingredients[x] : x \in {y \in 1..Len(recipe_ingredients) :
                                                 recipe_ingredients[y].recipe_id = id}}
      lines == OrderBySortOrder(rows)
  IN  [id             |-> id,
       ingredients    |-> [k \in 1..Len(lines) |->
                             [id           |-> lines[k].id,
                              ingredientId |-> lines[k].ingredient_id,
                              name         |-> lines[k].name,
                              sortOrder    |-> lines[k].sort_order]],
       unmatchedCount |-> Cardinality({r \in rows : ~Truthy(r.ingredient_id)})]

(***************************************************************************)
(* matchIngredientsToInventory (aiService.ts)                              *)
(***************************************************************************)
\* the list returned without a call to the model, or when the model gives nothing
TrivialMatches(recipeIngredients) ==
  [k \in 1..Len(recipeIngredients) |->
     [recipeIngredientName |-> recipeIngredients[k],
      matchedIngredientId  |-> NullId,
      confidence           |-> "LOW"]]

\* res.map(r => ({...r, matchedIngredientId: r.matchedIngredientId || null}))
NormalizeMatches(res) ==
  [k \in 1..Len(res) |->
     [res[k] EXCEPT !.matchedIngredientId = IF Truthy(@) THEN @ ELSE NullId]]

(***************************************************************************)
(* handleAutoMatch (IngredientDetails.tsx, RecipeDetail)                   *)
(*                                                                         *)
(* A behaviour follows one run of the handler, from any loaded page (the   *)
(* initial states cover every mix of linked and unlinked lines, so the     *)
(* page a run leaves behind is the start of another behaviour); linkPc is  *)
(* "done" when the handler has returned.                                   *)
(***************************************************************************)
\* the button is rendered when recipe.unmatchedCount > 0, disabled={matching}
AutoMatchButtonShown ==
  /\ linkPc = "idle"
  /\ detailError = ""
  /\ recipe.unmatchedCount > 0
  /\ ~matching

\* recipe.ingredients.filter(ing => !ing.ingredientId).map(ing => ing.name)
UnmatchedNames(r) ==
  LET open == SelectSeq(r.ingredients, LAMBDA ing : ~Truthy(ing.ingredientId))
  IN  [k \in 1..Len(open) |-> open[k].name]

\* an acceptance policy that looks at the matched id only
AcceptsAnyConfidence(match) == Truthy(match.matchedIngredientId)

\* the acceptance policy: match.matchedIngredientId && match.confidence !== 'LOW'
Accepts(match) == Truthy(match.matchedIngredientId) /\ match.confidence # "LOW"

\* a lookup by name alone, which also finds lines that are linked
FindLineByNameOnly(r, name) ==
  LET hit(k) == r.ingredients[k].name = name
  IN  IF \E k \in 1..Len(r.ingredients) : hit(k)
      THEN CHOOSE k \in 1..Len(r.ingredients) : hit(k) /\ \A j \in 1..(k - 1) : ~hit(j)
      ELSE 0

\* recipe.ingredients.find(i => i.name === name && !i.ingredientId): the
\* position of the line in the page's copy of the recipe, 0 when not found
FindLine(r, name) ==
  LET hit(k) == r.ingredients[k].name = name /\ ~Truthy(r.ingredients[k].ingredientId)
  IN  IF \E k \in 1..Len(r.ingredients) : hit(k)
      THEN CHOOSE k \in 1..Len(r.ingredients) : hit(k) /\ \A j \in 1..(k - 1) : ~hit(j)
      ELSE 0

\* click on the auto-match button: the handler up to the await of the matcher
handleAutoMatch ==
  /\ AutoMatchButtonShown
  /\ linkCalls' = <<>>
  /\ matches' = <<>>
  /\ linked' = 0
  /\ m' = 0
  /\ IF UnmatchedNames(recipe) = <<>>
     THEN /\ matchMessage' = "ALL_LINKED"
          /\ matching' = FALSE
          /\ linkPc' = "done"
     ELSE /\ matchMessage' = ""
          /\ matching' = TRUE
          /\ linkPc' = "awaitMatch"
  /\ modelCalled' = FALSE
  /\ UNCHANGED <<recipe, inventoryIngredients, detailError, batchVars, storeVars, importVars,
                 parseVars>>

\* a matcher that sends the prompt whatever the two lists hold
MatcherReturnsAlwaysAsks(res) ==
  /\ linkPc = "awaitMatch"
  /\ matches' = IF res = <<>>
                THEN TrivialMatches(UnmatchedNames(recipe))
                ELSE NormalizeMatches(res[1])
  /\ modelCalled' = TRUE
  /\ linked' = 0
  /\ m' = 1
  /\ linkPc' = "loop"
  /\ UNCHANGED <<recipe, inventoryIngredients, matching, matchMessage, linkCalls,
                 detailError, batchVars, storeVars, importVars, parseVars>>

\* await matchIngredientsToInventory(...) returns; res is the answer of the
\* model: <<>> for none (error or empty answer), otherwise <<list>>
MatcherReturns(res) ==
  /\ linkPc = "awaitMatch"
  /\ matches' = IF inventoryIngredients = <<>> \/ UnmatchedNames(recipe) = <<>> \/ res = <<>>
                THEN TrivialMatches(UnmatchedNames(recipe))
                ELSE NormalizeMatches(res[1])
  /\ modelCalled' = (inventoryIngredients # <<>> /\ UnmatchedNames(recipe) # <<>>)
  /\ linked' = 0
  /\ m' = 1
  /\ linkPc' = "loop"
  /\ UNCHANGED <<recipe, inventoryIngredients, matching, matchMessage, linkCalls,
                 detailError, batchVars, storeVars, importVars, parseVars>>

\* the answer of the model is not a list: res.map throws, the outer catch
\* shows the message, finally
MatcherThrows ==
  /\ linkPc = "awaitMatch"
  /\ inventoryIngredients # <<>>
  /\ modelCalled' = TRUE
  /\ matchMessage' = "ERROR"
  /\ matching' = FALSE
  /\ linkPc' = "done"
  /\ UNCHANGED <<recipe, inventoryIngredients, matches, m, linked, linkCalls,
                 detailError, batchVars, storeVars, importVars, parseVars>>

\* one linkRecipeIngredient call: fetch PUT .../ingredients/:lineId/link
NewLinkCall(cand, lineId, ingredientId) ==
  [cand |-> cand, lineId |-> lineId, ingredientId |-> ingredientId, state |-> "sent"]

\* one iteration of the for-of loop, up to its await or to its end
AutoMatchIteration ==
  /\ linkPc = "loop"
  /\ m <= Len(matches)
  /\ LET match == matches[m]
         line  == FindLine(recipe, match.recipeIngredientName)
     IN  IF Accepts(match) /\ line # 0
         THEN /\ linkCalls' = Append(linkCalls,
                    NewLinkCall(m, recipe.ingredients[line].id, match.matchedIngredientId))
              /\ linkPc' = "awaitLink"
              /\ UNCHANGED m
         ELSE /\ m' = m + 1
              /\ UNCHANGED <<linkCalls, linkPc>>
  /\ UNCHANGED <<recipe, inventoryIngredients, modelCalled, matching, matchMessage, matches, linked,
                 detailError, batchVars, storeVars, importVars, parseVars>>

\* await linkRecipeIngredient(...) returns: linked++
AutoMatchLinkResolved ==
  /\ linkPc = "awaitLink"
  /\ linkCalls[Len(linkCalls)].state = "ok"
  /\ linkCalls' = [linkCalls EXCEPT ![Len(linkCalls)].state = "resolved"]
  /\ linked' = linked + 1
  /\ m' = m + 1
  /\ linkPc' = "loop"
  /\ UNCHANGED <<recipe, inventoryIngredients, modelCalled, matching, matchMessage, matches,
                 detailError, batchVars, storeVars, importVars, parseVars>>

\* a failed link write that reaches the outer catch of the handler
AutoMatchLinkRejectedAborts ==
  /\ linkPc = "awaitLink"
  /\ linkCalls[Len(linkCalls)].state = "failed"
  /\ linkCalls' = [linkCalls EXCEPT ![Len(linkCalls)].state = "rejected"]
  /\ matchMessage' = "ERROR"
  /\ matching' = FALSE
  /\ linkPc' = "done"
  /\ UNCHANGED <<recipe, inventoryIngredients, modelCalled, matches, m, linked, detailError,
                 batchVars, storeVars, importVars, parseVars>>

\* await linkRecipeIngredient(...) throws: catch { /* skip failed links */ }
AutoMatchLinkRejected ==
  /\ linkPc = "awaitLink"
  /\ linkCalls[Len(linkCalls)].state = "failed"
  /\ linkCalls' = [linkCalls EXCEPT ![Len(linkCalls)].state = "rejected"]
  /\ m' = m + 1
  /\ linkPc' = "loop"
  /\ UNCHANGED <<recipe, inventoryIngredients, modelCalled, matching, matchMessage, matches, linked,
                 detailError, batchVars, storeVars, importVars, parseVars>>

\* after the loop: setMatchMessage, if (linked > 0) await loadRecipe(), finally
AutoMatchFinish ==
  /\ linkPc = "loop"
  /\ m > Len(matches)
  /\ matchMessage' = IF linked > 0 THEN "LINKED" ELSE "NO_MATCH"
  /\ IF linked > 0
     THEN linkPc' = "awaitLoad" /\ UNCHANGED matching
     ELSE linkPc' = "done" /\ matching' = FALSE
  /\ UNCHANGED <<recipe, inventoryIngredients, modelCalled, matches, m, linked, linkCalls,
                 detailError, batchVars, storeVars, importVars, parseVars>>

\* loadRecipe: getRecipeById answers (ok) or gives null (any failure)
LoadRecipeDone(ok) ==
  /\ linkPc = "awaitLoad"
  /\ IF ok
     THEN recipe' = GetRecipe(recipe.id) /\ UNCHANGED detailError
     ELSE detailError' = "NOT_FOUND" /\ UNCHANGED recipe
  /\ matching' = FALSE
  /\ linkPc' = "done"
  /\ UNCHANGED <<inventoryIngredients, modelCalled, matchMessage, matches, m, linked, linkCalls,
                 batchVars, storeVars, importVars, parseVars>>

(***************************************************************************)
(* PUT /api/recipes/:id/ingredients/:lineId/link (server.js)               *)
(***************************************************************************)
\* UPDATE recipe_ingredients SET ingredient_id = $1 WHERE id = $2 AND recipe_id = $3
UpdateIngredientId(rows, lineId, recipeId, ingredientId) ==
  [x \in 1..Len(rows) |->
     IF rows[x].id = lineId /\ rows[x].recipe_id = recipeId
     THEN [rows[x] EXCEPT !.ingredient_id = IF Truthy(ingredientId) THEN ingredientId ELSE NullId]
     ELSE rows[x]]

\* the handler answers 200: the recipe and the line exist and the inventory
\* row exists (foreign key of ingredient_id)
ServerLinkOk ==
  /\ linkCalls # <<>>
  /\ LET call == linkCalls[Len(linkCalls)]
     IN  /\ call.state = "sent"
         /\ \E x \in 1..Len(recipes) : recipes[x].id = recipe.id
         /\ \E x \in 1..Len(recipe_ingredients) :
              recipe_ingredients[x].id = call.lineId /\ recipe_ingredients[x].recipe_id = recipe.id
         /\ call.ingredientId \in ingredients
         /\ recipe_ingredients' =
              UpdateIngredientId(recipe_ingredients, call.lineId, recipe.id, call.ingredientId)
  /\ linkCalls' = [linkCalls EXCEPT ![Len(linkCalls)].state = "ok"]
  /\ UNCHANGED <<paprikaCandidates, paprikaBatchProgress, error, selected, i, batchPc,
                 runs, calls, recipes, storeVars, recipe, inventoryIngredients, modelCalled, matching,
                 matchMessage, linkPc, matches, m, linked, detailError, importVars, parseVars>>

\* the handler answers 404 or 500 (a query throws, or the key is violated)
ServerLinkError ==
  /\ linkCalls # <<>>
  /\ linkCalls[Len(linkCalls)].state = "sent"
  /\ linkCalls' = [linkCalls EXCEPT ![Len(linkCalls)].state = "failed"]
  /\ UNCHANGED <<batchVars, storeVars, recipe, inventoryIngredients, modelCalled, matching,
                 matchMessage, linkPc, matches, m, linked, detailError, importVars, parseVars>>


(***************************************************************************)
(* POST /api/recipes/import-url (server.js)                                *)
(*                                                                         *)
(* A fetched document is a sequence of segments:                           *)
(*   [kind |-> "ldjson", json |-> b]  <script type="application/ld+json">  *)
(*   [kind |-> "script"], [kind |-> "style"]   other script, style element *)
(*   [kind |-> "tag"]                 any other tag                        *)
(*   [kind |-> "char", c |-> x]       one character of text                *)
(* The content b of a structured-metadata block is                         *)
(*   [kind |-> "invalid"]             JSON.parse throws                    *)
(*   [kind |-> "array", items |-> q]  a JSON array of objects              *)
(*   [kind |-> "object", value |-> o] a JSON object                        *)
(* A JSON object is a record with the fields type ('@type'), name,         *)
(* recipeIngredient and, for some, graph ('@graph').  A '@type' is         *)
(* [array |-> FALSE, names |-> <<t>>] for the string t, <<>> when the      *)
(* object has no '@type', and [array |-> TRUE, names |-> q] for an array.  *)
(* The candidates of a block are JSON objects.                             *)
(***************************************************************************)
\* html.match(/<script[^>]*type="application/ld+json"[^>]*>...<\/script>/gi)
\* and, for each match, JSON.parse of its content
JsonLdBlocks(doc) ==
  LET segs == SelectSeq(doc, LAMBDA seg : seg.kind = "ldjson")
  IN  [k \in 1..Len(segs) |-> segs[k].json]

\* Array.isArray(parsed) ? parsed : (parsed['@graph'] || [parsed])
Candidates(parsed) ==
  IF parsed.kind = "array" THEN parsed.items
  ELSE IF "graph" \in DOMAIN parsed.value THEN parsed.value.graph
  ELSE <<parsed.value>>

\* a type test that knows the string form of '@type' only
IsRecipeStringOnly(candidate) ==
  ~candidate.type.array /\ candidate.type.names = <<"Recipe">>

\* candidate['@type'] === 'Recipe' ||
\*   (Array.isArray(candidate['@type']) && candidate['@type'].includes('Recipe'))
IsRecipe(candidate) ==
  IF candidate.type.array
  THEN \E k \in 1..Len(candidate.type.names) : candidate.type.names[k] = "Recipe"
  ELSE candidate.type.names = <<"Recipe">>

RECURSIVE FirstRecipeIn(_)
\* for (const candidate of candidates) { if (...) { recipeData = candidate; break; } }
FirstRecipeIn(candidates) ==
  IF candidates = <<>> THEN <<>>
  ELSE IF IsRecipe(Head(candidates)) THEN <<Head(candidates)>>
  ELSE FirstRecipeIn(Tail(candidates))

\* the body of the try block for one block; a block that fails to parse goes
\* to the empty catch
BlockMatch(block) ==
  IF block.kind = "invalid" THEN <<>> ELSE FirstRecipeIn(Candidates(block))

RECURSIVE ScanBlocks(_)
\* for (const match of jsonLdMatch) { try {...} catch {}; if (recipeData) break; }
\* recipeData as a sequence of length 0 (null) or 1
ScanBlocks(blocks) ==
  IF blocks = <<>> THEN <<>>
  ELSE IF BlockMatch(Head(blocks)) # <<>> THEN BlockMatch(Head(blocks))
  ELSE ScanBlocks(Tail(blocks))

\* parseServings(val).servings; val is the yield as a text, <<>> when the
\* node has none.  parseInt skips leading white space and reads the digits
\* that follow (signs are not among the characters of the model)
parseServings(val) ==
  IF val = <<>> THEN 4
  ELSE LET s == Drop(val, LeadingIn(val, Whitespace))
           n == LeadingIn(s, Digits)
       IN  IF n = 0 THEN 4 ELSE DigitsVal(Take(s, n))

\* the res.json of the branch if (recipeData)
StructuredResult(url, recipeData) ==
  [recipe      |-> [name      |-> recipeData.name,
                    category  |-> "PLAT",
                    prepTime  |-> parseTime(recipeData.prepTime),
                    cookTime  |-> parseTime(recipeData.cookTime),
                    servings  |-> parseServings(recipeData.recipeYield),
                    source    |-> "IMPORTED",
                    sourceUrl |-> url],
   ingredients |-> [k \in 1..Len(recipeData.recipeIngredient) |->
                      parseIngredientLine(recipeData.recipeIngredient[k])],
   confidence  |-> "HIGH",
   parseMethod |-> "JSON_LD"]

\* html.replace(script, '').replace(style, '').replace(/<[^>]+>/g, ' ')
StripMarkup(doc) ==
  LET kept == SelectSeq(doc, LAMBDA seg : seg.kind \notin {"ldjson", "script", "style"})
  IN  [k \in 1..Len(kept) |-> IF kept[k].kind = "tag" THEN " " ELSE kept[k].c]

RECURSIVE CollapseSpaces(_)
\* .replace(/\s+/g, ' ')
CollapseSpaces(s) ==
  IF Len(s) < 2 THEN s
  ELSE IF s[1] \in Whitespace /\ s[2] \in Whitespace THEN CollapseSpaces(Tail(s))
  ELSE <<s[1]>> \o CollapseSpaces(Tail(s))

\* .substring(0, 10000)
RawTextLimit == 10000

Substring0(s, n) == IF Len(s) <= n THEN s ELSE SubSeq(s, 1, n)

TextContent(doc) == Substring0(Trim(CollapseSpaces(StripMarkup(doc))), RawTextLimit)

\* a fallback answer that carries no raw text
FallbackResultWithoutText(url, doc) ==
  [recipe      |-> [sourceUrl |-> url, source |-> "IMPORTED"],
   ingredients |-> <<>>,
   confidence  |-> "LOW",
   parseMethod |-> "NEEDS_AI"]

\* the res.json of the else branch
\* a fallback that is rated like an archive entry
FallbackResultMedium(url, doc) ==
  [recipe      |-> [sourceUrl |-> url, source |-> "IMPORTED"],
   ingredients |-> <<>>,
   confidence  |-> "MEDIUM",
   parseMethod |-> "NEEDS_AI",
   rawText     |-> TextContent(doc)]

FallbackResult(url, doc) ==
  [recipe      |-> [sourceUrl |-> url, source |-> "IMPORTED"],
   ingredients |-> <<>>,
   confidence  |-> "LOW",
   parseMethod |-> "NEEDS_AI",
   rawText     |-> TextContent(doc)]

\* response.ok
ResponseOk(status) == status \in 200..299

\* an error text that leaves the status of the fetch out
FetchErrorTextWithoutStatus(status) == "Impossible de charger l'URL"

\* `Impossible de charger l'URL (${response.status})`
FetchErrorText(status) ==
  CASE status = 404 -> "Impossible de charger l'URL (404)"
    [] status = 503 -> "Impossible de charger l'URL (503)"
    [] OTHER -> "Impossible de charger l'URL"

\* the handler of POST /api/recipes/import-url; outcome is what fetch(url)
\* gives: it throws, or it resolves with a status and a document
ServerImportUrl(outcome) ==
  /\ urlRequest # <<>>
  /\ urlResponse = <<>>
  /\ LET url == urlRequest[1].url
     IN  IF url = <<>>
         THEN /\ urlResponse' = <<[status |-> 400, body |-> [error |-> "URL requise"]]>>
              /\ fetchResponse' = <<>>
              /\ html' = <<>>
         ELSE IF outcome.kind = "throws"
         THEN /\ urlResponse' =
                   <<[status |-> 500, body |-> [error |-> "Erreur lors de l'import"]]>>
              /\ fetchResponse' = <<>>
              /\ html' = <<>>
         ELSE IF ~ResponseOk(outcome.status)
         THEN /\ urlResponse' =
                   <<[status |-> 400, body |-> [error |-> FetchErrorText(outcome.status)]]>>
              /\ fetchResponse' = <<[status |-> outcome.status]>>
              /\ html' = <<>>
         ELSE LET recipeData == ScanBlocks(JsonLdBlocks(outcome.html))
              IN  /\ fetchResponse' = <<[status |-> outcome.status]>>
                  /\ html' = <<outcome.html>>
                  /\ urlResponse' =
                       <<[status |-> 200,
                          body   |-> JsonImportResult(
                                       IF recipeData # <<>>
                                       THEN StructuredResult(url, recipeData[1])
                                       ELSE FallbackResult(url, outcome.html))]>>
  /\ UNCHANGED <<activeTab, importUrl, importingUrl, rawText, parsingText, paprikaFile,
                 importingPaprika, toast, form, textResult, urlRequest, paprikaRequest,
                 paprikaResponse, batchVars, storeVars, linkVars, parseVars>>

(***************************************************************************)
(* POST /api/recipes/import-paprika (server.js): the handler.  The upload  *)
(* is [container, entries]: container is "zip" when AdmZip opens the file  *)
(* part of the multipart body, "garbage" when it throws.                   *)
(***************************************************************************)
\* res.json(recipes)
PaprikaResponseBody(entries) ==
  LET results == PaprikaLoop(entries)
  IN  [k \in 1..Len(results) |-> JsonImportResult(results[k])]

\* a handler in which an entry that fails to decode fails the request
ServerImportPaprikaAborts ==
  /\ paprikaRequest # <<>>
  /\ paprikaResponse = <<>>
  /\ LET upload == paprikaRequest[1]
     IN  IF \/ upload.container # "zip"
            \/ \E k \in 1..Len(upload.entries) :
                 IsRecipeEntry(upload.entries[k]) /\ DecodeThrows(upload.entries[k])
         THEN paprikaResponse' =
                <<[status |-> 500, body |-> [error |-> "Erreur lors de l'import Paprika"]]>>
         ELSE paprikaResponse' =
                <<[status |-> 200, body |-> PaprikaResponseBody(upload.entries)]>>
  /\ UNCHANGED <<activeTab, importUrl, importingUrl, rawText, parsingText, paprikaFile,
                 importingPaprika, toast, form, textResult, urlRequest, fetchResponse, html, urlResponse,
                 paprikaRequest, batchVars, storeVars, linkVars, parseVars>>

ServerImportPaprika ==
  /\ paprikaRequest # <<>>
  /\ paprikaResponse = <<>>
  /\ LET upload == paprikaRequest[1]
     IN  IF upload.container # "zip"
         THEN paprikaResponse' =
                <<[status |-> 500, body |-> [error |-> "Erreur lors de l'import Paprika"]]>>
         ELSE paprikaResponse' =
                <<[status |-> 200, body |-> PaprikaResponseBody(upload.entries)]>>
  /\ UNCHANGED <<activeTab, importUrl, importingUrl, rawText, parsingText, paprikaFile,
                 importingPaprika, toast, form, textResult, urlRequest, fetchResponse, html, urlResponse,
                 paprikaRequest, batchVars, storeVars, linkVars, parseVars>>

(***************************************************************************)
(* AddRecipe page: the import tabs (AddRecipe.tsx, recipeService.ts)       *)
(***************************************************************************)
\* the message of the Error thrown by handleResponse for a response that is
\* not ok: `API Error: ${status} ${statusText} - ${errorText}`
ApiErrorMessage(response) ==
  CASE response.body.error = "URL requise" -> "API Error: 400 - URL requise"
    [] response.body.error = "Impossible de charger l'URL (404)" ->
         "API Error: 400 - Impossible de charger l'URL (404)"
    [] response.body.error = "Impossible de charger l'URL (503)" ->
         "API Error: 400 - Impossible de charger l'URL (503)"
    [] response.body.error = "Impossible de charger l'URL" ->
         "API Error: 400 - Impossible de charger l'URL"
    [] response.body.error = "Erreur lors de l'import" ->
         "API Error: 500 - Erreur lors de l'import"
    [] OTHER -> "API Error: 500 - Erreur lors de l'import Paprika"

\* the form before anything is typed or imported
EmptyForm ==
  [name        |-> "",
   category    |-> "PLAT",
   sourceUrl   |-> <<>>,
   ingredients |-> <<[amount |-> <<>>, unit |-> <<>>, name |-> <<>>, optional |-> FALSE]>>]

\* r.f of an object that may lack the property
Field(r, f, default) == IF f \in DOMAIN r THEN r[f] ELSE default

\* the form after populateFromImport(result); String(amount) is <<amount>>,
\* '' is <<>>
populateFromImport(result) ==
  LET r == result.recipe
  IN  [name        |-> IF Field(r, "name", "") # "" THEN r.name ELSE form.name,
       category    |-> IF Field(r, "category", "") # "" THEN r.category ELSE form.category,
       sourceUrl   |-> IF Field(r, "sourceUrl", <<>>) # <<>> THEN r.sourceUrl
                       ELSE form.sourceUrl,
       ingredients |-> IF Len(result.ingredients) > 0
                       THEN [k \in 1..Len(result.ingredients) |->
                               LET ing == result.ingredients[k]
                               IN  [amount   |-> IF ing.amount # Null THEN <<ing.amount>>
                                                 ELSE <<>>,
                                    unit     |-> ing.unit,
                                    name     |-> ing.name,
                                    optional |-> ing.optional]]
                       ELSE form.ingredients]

\* nothing has been typed, chosen or imported on the page
Pristine ==
  /\ importUrl = <<>> /\ rawText = <<>> /\ paprikaFile = <<>>
  /\ ~importingUrl /\ ~parsingText /\ ~importingPaprika
  /\ toast = "" /\ error = "" /\ form = EmptyForm

\* click on a tab; a behaviour follows the imports made from one tab, the tab
\* is chosen on the pristine page
setActiveTab(tab) ==
  /\ batchPc = "idle"
  /\ Pristine
  /\ activeTab # tab
  /\ activeTab' = tab
  /\ UNCHANGED <<importUrl, importingUrl, rawText, parsingText, paprikaFile,
                 importingPaprika, toast, form, textResult, urlRequest, fetchResponse, html, urlResponse,
                 paprikaRequest, paprikaResponse, batchVars, storeVars, linkVars, parseVars>>

\* typing in the URL field
setImportUrl(value) ==
  /\ batchPc = "idle"
  /\ activeTab = "url"
  /\ ~importingUrl
  /\ importUrl # value
  /\ importUrl' = value
  /\ UNCHANGED <<activeTab, importingUrl, rawText, parsingText, paprikaFile,
                 importingPaprika, toast, form, textResult, urlRequest, fetchResponse, html, urlResponse,
                 paprikaRequest, paprikaResponse, batchVars, storeVars, linkVars, parseVars>>

\* handleImportUrl up to its await: importRecipeFromUrl(importUrl.trim())
handleImportUrl ==
  /\ batchPc = "idle"
  /\ activeTab = "url"
  /\ ~importingUrl
  /\ Trim(importUrl) # <<>>
  /\ importingUrl' = TRUE
  /\ error' = ""
  /\ urlRequest' = <<[url |-> Trim(importUrl)]>>
  /\ urlResponse' = <<>>
  /\ html' = <<>>
  /\ fetchResponse' = <<>>
  /\ UNCHANGED <<activeTab, importUrl, rawText, parsingText, paprikaFile, importingPaprika,
                 toast, form, textResult, paprikaRequest, paprikaResponse,
                 paprikaCandidates, paprikaBatchProgress, selected, i, batchPc, runs, calls,
                 recipes, recipe_ingredients, storeVars, linkVars, parseVars>>

\* await importRecipeFromUrl(...) returns the body of a response that is ok
ImportUrlResolved ==
  /\ importingUrl
  /\ urlResponse # <<>>
  /\ ResponseOk(urlResponse[1].status)
  /\ LET result == urlResponse[1].body
     IN  IF Field(result, "rawText", <<>>) # <<>> /\ result.parseMethod # "JSON_LD"
         THEN /\ rawText' = result.rawText
              /\ activeTab' = "text"
              /\ toast' = "Aucune donnee structuree trouvee"
              /\ UNCHANGED form
         ELSE /\ form' = [populateFromImport(result) EXCEPT !.sourceUrl = Trim(importUrl)]
              /\ toast' = "Recette importee avec succes !"
              /\ UNCHANGED <<rawText, activeTab>>
  /\ importingUrl' = FALSE
  /\ urlRequest' = <<>>
  /\ urlResponse' = <<>>
  /\ html' = <<>>
  /\ fetchResponse' = <<>>
  /\ UNCHANGED <<importUrl, parsingText, paprikaFile, importingPaprika, textResult,
                 paprikaRequest, paprikaResponse, batchVars, storeVars, linkVars, parseVars>>

\* await importRecipeFromUrl(...) throws: handleResponse on a response that
\* is not ok
ImportUrlRejected ==
  /\ importingUrl
  /\ urlResponse # <<>>
  /\ ~ResponseOk(urlResponse[1].status)
  /\ error' = ApiErrorMessage(urlResponse[1])
  /\ importingUrl' = FALSE
  /\ urlRequest' = <<>>
  /\ urlResponse' = <<>>
  /\ html' = <<>>
  /\ fetchResponse' = <<>>
  /\ UNCHANGED <<activeTab, importUrl, rawText, parsingText, paprikaFile, importingPaprika,
                 toast, form, textResult, paprikaRequest, paprikaResponse,
                 paprikaCandidates, paprikaBatchProgress, selected, i, batchPc, runs, calls,
                 recipes, recipe_ingredients, storeVars, linkVars, parseVars>>

\* typing in the text area
setRawText(value) ==
  /\ batchPc = "idle"
  /\ activeTab = "text"
  /\ ~parsingText
  /\ rawText # value
  /\ rawText' = value
  /\ UNCHANGED <<activeTab, importUrl, importingUrl, parsingText, paprikaFile,
                 importingPaprika, toast, form, textResult, urlRequest, fetchResponse, html, urlResponse,
                 paprikaRequest, paprikaResponse, batchVars, storeVars, linkVars, parseVars>>

\* handleParseText up to its await: parseRecipeFromText(rawText.trim())
handleParseText ==
  /\ batchPc = "idle"
  /\ activeTab = "text"
  /\ ~parsingText
  /\ Trim(rawText) # <<>>
  /\ parsingText' = TRUE
  /\ error' = ""
  /\ UNCHANGED <<activeTab, importUrl, importingUrl, rawText, paprikaFile, importingPaprika,
                 toast, form, textResult, urlRequest, fetchResponse, html, urlResponse, paprikaRequest,
                 paprikaResponse,
                 paprikaCandidates, paprikaBatchProgress, selected, i, batchPc, runs, calls,
                 recipes, recipe_ingredients, storeVars, linkVars, parseVars>>

\* the ImportResult handleParseText builds from the answer of the model:
\* const { ingredients: parsedIngredients, ...recipeFields } = parsed
TextImportResult(parsed) ==
  [recipe      |-> [f \in DOMAIN parsed \ {"ingredients"} |-> parsed[f]],
   ingredients |-> Field(parsed, "ingredients", <<>>),
   confidence  |-> "MEDIUM",
   parseMethod |-> "AI_TEXT"]

\* await parseRecipeFromText(...) returns
ParseTextReturns(parsed) ==
  /\ parsingText
  /\ textResult' = <<TextImportResult(parsed)>>
  /\ form' = populateFromImport(TextImportResult(parsed))
  /\ toast' = "Recette parsee avec succes !"
  /\ parsingText' = FALSE
  /\ UNCHANGED <<activeTab, importUrl, importingUrl, rawText, paprikaFile, importingPaprika,
                 urlRequest, fetchResponse, html, urlResponse, paprikaRequest, paprikaResponse,
                 batchVars, storeVars, linkVars, parseVars>>

\* await parseRecipeFromText(...) throws an Error with the given message
ParseTextThrows(message) ==
  /\ parsingText
  /\ error' = IF message \in {"parseRecipeFromText is not a function", "not implemented"}
              THEN "Fonctionnalite IA bientot disponible"
              ELSE IF message # "" THEN message ELSE "Erreur lors du parsing IA"
  /\ parsingText' = FALSE
  /\ UNCHANGED <<activeTab, importUrl, importingUrl, rawText, paprikaFile, importingPaprika,
                 toast, form, textResult, urlRequest, fetchResponse, html, urlResponse, paprikaRequest,
                 paprikaResponse,
                 paprikaCandidates, paprikaBatchProgress, selected, i, batchPc, runs, calls,
                 recipes, recipe_ingredients, storeVars, linkVars, parseVars>>

\* a file is chosen in the file input; a behaviour follows the imports of
\* one file
handlePaprikaFileChange(file) ==
  /\ batchPc = "idle"
  /\ activeTab = "paprika"
  /\ paprikaFile = <<>>
  /\ paprikaFile' = <<file>>
  /\ paprikaCandidates' = <<>>
  /\ paprikaBatchProgress' = <<>>
  /\ UNCHANGED <<activeTab, importUrl, importingUrl, rawText, parsingText, importingPaprika,
                 toast, form, textResult, urlRequest, fetchResponse, html, urlResponse, paprikaRequest,
                 paprikaResponse,
                 error, selected, i, batchPc, runs, calls,
                 recipes, recipe_ingredients, storeVars, linkVars, parseVars>>

\* handleImportPaprika up to its await: importPaprikaFile(paprikaFile)
handleImportPaprika ==
  /\ batchPc = "idle"
  /\ activeTab = "paprika"
  /\ ~importingPaprika
  /\ paprikaFile # <<>>
  /\ importingPaprika' = TRUE
  /\ error' = ""
  /\ paprikaRequest' = paprikaFile
  /\ paprikaResponse' = <<>>
  /\ UNCHANGED <<activeTab, importUrl, importingUrl, rawText, parsingText, paprikaFile,
                 toast, form, textResult, urlRequest, fetchResponse, html, urlResponse,
                 paprikaCandidates, paprikaBatchProgress, selected, i, batchPc, runs, calls,
                 recipes, recipe_ingredients, storeVars, linkVars, parseVars>>

\* setPaprikaCandidates(results.map(r => ({importResult: r, selected: true})))
AsCandidates(results) ==
  [k \in 1..Len(results) |-> [importResult |-> results[k], selected |-> TRUE]]

\* await importPaprikaFile(...) returns the body of a response that is ok
ImportPaprikaResolved ==
  /\ importingPaprika
  /\ paprikaResponse # <<>>
  /\ ResponseOk(paprikaResponse[1].status)
  /\ paprikaCandidates' = AsCandidates(paprikaResponse[1].body)
  /\ importingPaprika' = FALSE
  /\ paprikaRequest' = <<>>
  /\ paprikaResponse' = <<>>
  /\ UNCHANGED <<activeTab, importUrl, importingUrl, rawText, parsingText, paprikaFile,
                 toast, form, textResult, urlRequest, fetchResponse, html, urlResponse,
                 paprikaBatchProgress, error, selected, i, batchPc, runs, calls,
                 recipes, recipe_ingredients, storeVars, linkVars, parseVars>>

\* await importPaprikaFile(...) throws
ImportPaprikaRejected ==
  /\ importingPaprika
  /\ paprikaResponse # <<>>
  /\ ~ResponseOk(paprikaResponse[1].status)
  /\ error' = ApiErrorMessage(paprikaResponse[1])
  /\ importingPaprika' = FALSE
  /\ paprikaRequest' = <<>>
  /\ paprikaResponse' = <<>>
  /\ UNCHANGED <<activeTab, importUrl, importingUrl, rawText, parsingText, paprikaFile,
                 toast, form, textResult, urlRequest, fetchResponse, html, urlResponse,
                 paprikaCandidates, paprikaBatchProgress, selected, i, batchPc, runs, calls,
                 recipes, recipe_ingredients, storeVars, linkVars, parseVars>>

(***************************************************************************)
(* Components at rest: the values of a page's or a handler's variables     *)
(* while another page is open                                              *)
(***************************************************************************)
LinkIdle ==
  /\ recipe = [id |-> <<0, 0>>, ingredients |-> <<>>, unmatchedCount |-> 0]
  /\ inventoryIngredients = <<>>
  /\ matching = FALSE
  /\ matchMessage = ""
  /\ linkPc = "closed"
  /\ modelCalled = FALSE
  /\ matches = <<>>
  /\ m = 0
  /\ linked = 0
  /\ linkCalls = <<>>
  /\ detailError = ""

ImportIdle ==
  /\ activeTab = "manual"
  /\ importUrl = <<>>
  /\ importingUrl = FALSE
  /\ rawText = <<>>
  /\ parsingText = FALSE
  /\ paprikaFile = <<>>
  /\ importingPaprika = FALSE
  /\ toast = ""
  /\ form = EmptyForm
  /\ textResult = <<>>
  /\ urlRequest = <<>>
  /\ html = <<>>
  /\ fetchResponse = <<>>
  /\ urlResponse = <<>>
  /\ paprikaRequest = <<>>
  /\ paprikaResponse = <<>>

ParseIdle ==
  /\ parseCall = <<>>
  /\ parseResult = <<>>

BatchIdle ==
  /\ paprikaCandidates = <<>>
  /\ paprikaBatchProgress = <<>>
  /\ error = ""
  /\ selected = <<>>
  /\ i = 0
  /\ batchPc = "closed"
  /\ runs = 0
  /\ calls = <<>>

(***************************************************************************)
(* Batch import: specification                                             *)
(***************************************************************************)
\* the archives of the model
Archives == SeqsUpTo(SampleEntries, MaxEntries)

\* the page after handleImportPaprika has put the candidates of an archive on
\* display; the store is empty
BatchInit ==
  /\ \E archive \in Archives :
       /\ PaprikaResponseBody(archive) # <<>>
       /\ paprikaCandidates = AsCandidates(PaprikaResponseBody(archive))
  /\ paprikaBatchProgress = <<>>
  /\ error = ""
  /\ selected = <<>>
  /\ i = 0
  /\ batchPc = "idle"
  /\ runs = 0
  /\ calls = <<>>
  /\ recipes = <<>>
  /\ recipe_ingredients = <<>>
  /\ ingredients = {}
  /\ LinkIdle
  /\ ImportIdle
  /\ ParseIdle

BatchNext ==
  \/ \E index \in 1..MaxEntries : togglePaprikaCandidate(index)
  \/ \E sel \in BOOLEAN : selectAllPaprika(sel)
  \/ handleBatchImportPaprika
  \/ BatchCreateResolved
  \/ BatchCreateRejected
  \/ \E c \in 1..MaxEntries : ServerCreateBegin(c)
  \/ \E c \in 1..MaxEntries : ServerInsertRecipe(c)
  \/ \E c \in 1..MaxEntries : ServerInsertIngredient(c)
  \/ \E c \in 1..MaxEntries : ServerCommit(c)
  \/ \E c \in 1..MaxEntries : ServerCreateError(c)

SpecBatch == BatchInit /\ [][BatchNext]_vars

\* the batch import where every createRecipe call is answered: the server
\* goes on with a request it has received until COMMIT or ROLLBACK, and the
\* handler resumes when its await settles; the clicks of the user are free
SpecBatchLive ==
  /\ SpecBatch
  /\ WF_vars(\E c \in 1..MaxEntries :
               \/ ServerCreateBegin(c) \/ ServerInsertRecipe(c) \/ ServerInsertIngredient(c)
               \/ ServerCommit(c) \/ ServerCreateError(c))
  /\ WF_vars(BatchCreateResolved)
  /\ WF_vars(BatchCreateRejected)

(***************************************************************************)
(* Batch import: properties                                                *)
(***************************************************************************)
\* the calls of the current run in a given set of states
CallsIn(states) == {c \in 1..Len(calls) : calls[c].state \in states}

\* the items of the current run whose recipe row is in the store
PersistedItems == {recipes[x].id[2] : x \in {y \in 1..Len(recipes) : recipes[y].id[1] = runs}}

\* the run is over: the handler is not waiting for a createRecipe call
BatchEnded == runs > 0 /\ batchPc # "awaitCreate"

\* the run ended with the failure of item k
BatchFailedAt(k) == BatchEnded /\ \E c \in CallsIn({"rejected"}) : calls[c].item = k

\* C1: when the creation of item k has failed, no create call exists for an
\* item after k, and once the run is over exactly the items 1..k-1 of the run
\* are in the store and an error message is shown.
C1_PartialFailure ==
  \A c \in CallsIn({"rejected"}) :
    LET k == calls[c].item
    IN  /\ \A d \in 1..Len(calls) : calls[d].item <= k
        /\ BatchEnded =>
             /\ PersistedItems = 1..(k - 1)
             /\ \A x \in 1..Len(recipes) :
                  recipes[x].id[1] = runs =>
                    recipes[x].name = CreateRecipeBody(selected[recipes[x].id[2]].importResult).name
             /\ error # ""

C1_Witness == BatchFailedAt(2) /\ Len(selected) = 3 /\ PersistedItems = {1}

C7_Sequential ==
  /\ Cardinality(CallsIn({"sent", "begun", "committed", "rolledback"})) <= 1
  /\ \A c \in 1..Len(calls) :
       /\ calls[c].item = c
       /\ c > 1 => calls[c - 1].state = "resolved"

C7_Witness ==
  /\ Len(calls) = 3
  /\ calls[3].state = "sent"
  /\ calls[1].state = "resolved" /\ calls[2].state = "resolved"

\* C29: a recipe persisted by batch import is a favorite exactly when its
\* import result is flagged favorite (the rating of the entry is above 3)
C29_FavoriteCarried ==
  \A x \in 1..Len(recipes) :
    recipes[x].id[1] = runs =>
      (recipes[x].is_favorite
         <=> selected[recipes[x].id[2]].importResult.recipe.isFavorite)

\* C25: the category of every import result of an archive is one of the
\* seven values of the category enum
C25_CategoryInEnum ==
  \A k \in 1..Len(paprikaCandidates) :
    paprikaCandidates[k].importResult.recipe.category \in
      {"ENTREE", "PLAT", "DESSERT", "SAUCE", "ACCOMPAGNEMENT", "BOISSON", "SNACK"}

\* C26: the store never shows part of a recipe: every stored line belongs to
\* a stored recipe, and for every create call of the run either the recipe
\* row is stored with one line for each submitted line, the call having
\* committed, or neither the row nor any line of it is stored
C26_CreateAtomic ==
  /\ \A x \in 1..Len(recipe_ingredients) :
       \E y \in 1..Len(recipes) : recipes[y].id = recipe_ingredients[x].recipe_id
  /\ \A c \in 1..Len(calls) :
       LET id   == <<runs, calls[c].item>>
           rows == {x \in 1..Len(recipe_ingredients) : recipe_ingredients[x].recipe_id = id}
       IN  IF \E y \in 1..Len(recipes) : recipes[y].id = id
           THEN /\ calls[c].state \in {"committed", "resolved"}
                /\ Cardinality(rows) = Len(calls[c].body.ingredients)
                /\ {recipe_ingredients[x].sort_order : x \in rows}
                     = 0..(Len(calls[c].body.ingredients) - 1)
           ELSE rows = {}

\* a create request of a recipe with two lines has ended with a failure and
\* left nothing in the store, after another recipe was stored with its lines
C26_Witness ==
  \E c \in CallsIn({"rolledback", "rejected"}) :
    /\ Len(calls[c].body.ingredients) = 2
    /\ \A y \in 1..Len(recipes) : recipes[y].id # <<runs, calls[c].item>>
    /\ \A x \in 1..Len(recipe_ingredients) :
         recipe_ingredients[x].recipe_id # <<runs, calls[c].item>>
    /\ \E d \in CallsIn({"resolved"}) :
         \E x \in 1..Len(recipe_ingredients) :
           recipe_ingredients[x].recipe_id = <<runs, calls[d].item>>

\* C27: a batch import that has started ends in one of two ways: every
\* selected candidate is in the store and the client has navigated to the
\* recipe list without an error, or an error is shown, the last create call
\* is the one that failed, the items before it are in the store, and no
\* create call is issued afterwards in that run
C27_BatchTerminates ==
  /\ (batchPc = "awaitCreate") ~>
       \/ /\ batchPc = "navigated"
          /\ error = ""
          /\ PersistedItems = 1..Len(selected)
       \/ /\ batchPc = "idle"
          /\ error # ""
          /\ calls # <<>>
          /\ calls[Len(calls)].state = "rejected"
          /\ PersistedItems = 1..(Len(calls) - 1)
  /\ [][(batchPc = "idle" /\ error # "" /\ runs' = runs) => calls' = calls]_vars

\* a batch of two candidates has ended on the recipe list with both stored
C27_Witness ==
  /\ batchPc = "navigated"
  /\ Len(selected) = 2
  /\ PersistedItems = {1, 2}
  /\ CallsIn({"resolved"}) = {1, 2}

TheRecipeId == <<1, 1>>

LineNames == {"sel", "riz"}

\* the inventory rows of the store
InventoryIds == {"inv1", "inv2"}

\* the candidates the matching model may return, before normalisation (the
\* answer of the REST model is parsed JSON: its confidence is any string)
RawCandidates ==
  {[recipeIngredientName |-> n, matchedIngredientId |-> x[1], confidence |-> x[2]] :
     n \in LineNames,
     x \in {<<"inv1", "HIGH">>, <<"inv1", "LOW">>, <<"inv2", "MEDIUM">>, <<"", "HIGH">>}}
  \cup {[recipeIngredientName |-> "sel", matchedIngredientId |-> "inv2",
          confidence |-> "CERTAIN"]}

\* the answers of the matching model: none, or a list of candidates
ModelAnswers == {<<>>} \cup {<<a>> : a \in SeqsUpTo(RawCandidates, MaxMatches)}

\* the rows of a recipe whose lines have the given names and links
LineRows(names, links) ==
  [k \in 1..Len(names) |->
     [id            |-> <<TheRecipeId, k - 1>>,
      recipe_id     |-> TheRecipeId,
      ingredient_id |-> links[k],
      name          |-> names[k],
      amount        |-> Null,
      unit          |-> Null,
      is_optional   |-> FALSE,
      sort_order    |-> k - 1]]

\* the RecipeDetail page has loaded a stored recipe and the inventory
LinkInit ==
  /\ recipes = <<[id |-> TheRecipeId, name |-> "Soupe", category |-> "PLAT",
                  source |-> "IMPORTED", is_favorite |-> FALSE]>>
  /\ \E names \in SeqsUpTo(LineNames, MaxLines) :
       \E links \in SeqsUpTo({NullId, "inv1"}, MaxLines) :
         /\ Len(names) > 0
         /\ Len(links) = Len(names)
         /\ recipe_ingredients = LineRows(names, links)
  /\ ingredients = InventoryIds
  /\ recipe = GetRecipe(TheRecipeId)
  /\ inventoryIngredients \in {<<>>, <<"inv1", "inv2">>}
  /\ matching = FALSE
  /\ matchMessage = ""
  /\ linkPc = "idle"
  /\ modelCalled = FALSE
  /\ matches = <<>>
  /\ m = 0
  /\ linked = 0
  /\ linkCalls = <<>>
  /\ detailError = ""
  /\ BatchIdle
  /\ ImportIdle
  /\ ParseIdle

LinkNext ==
  \/ handleAutoMatch
  \/ \E res \in ModelAnswers : MatcherReturns(res)
  \/ MatcherThrows
  \/ AutoMatchIteration
  \/ AutoMatchLinkResolved
  \/ AutoMatchLinkRejected
  \/ AutoMatchFinish
  \/ \E ok \in BOOLEAN : LoadRecipeDone(ok)
  \/ ServerLinkOk
  \/ ServerLinkError

SpecLink == LinkInit /\ [][LinkNext]_vars

(***************************************************************************)
(* Reconcile: properties                                                   *)
(***************************************************************************)
LinkCallsIn(states) == {c \in 1..Len(linkCalls) : linkCalls[c].state \in states}

\* the for-of loop has gone through every candidate
LoopOver ==
  \/ linkPc = "loop" /\ m > Len(matches)
  \/ linkPc \in {"awaitLoad", "done"} /\ matchMessage \in {"LINKED", "NO_MATCH"}

\* C3: every link write of the run is made for a candidate whose confidence
\* is not LOW and whose matched inventory id is neither null nor empty.
C3_LinkOnlyAccepted ==
  \A c \in 1..Len(linkCalls) :
    LET match == matches[linkCalls[c].cand]
    IN  /\ match.confidence # "LOW"
        /\ match.matchedIngredientId \notin {NullId, ""}
        /\ linkCalls[c].ingredientId = match.matchedIngredientId

\* a LOW candidate with a matched id and a matching unlinked line was passed
\* over, and a later candidate was linked
C3_Witness ==
  /\ LoopOver
  /\ \E k \in 1..Len(matches) :
       /\ matches[k].confidence = "LOW"
       /\ matches[k].matchedIngredientId = "inv1"
       /\ \E x \in 1..Len(recipe_ingredients) :
            /\ recipe_ingredients[x].name = matches[k].recipeIngredientName
            /\ recipe_ingredients[x].ingredient_id = NullId
       /\ \E c \in LinkCallsIn({"resolved"}) : linkCalls[c].cand > k

\* C22: a link write is made only for a candidate whose confidence is HIGH
\* or MEDIUM; a candidate with any other confidence causes no link write
C22_OnlyHighOrMedium ==
  \A c \in 1..Len(linkCalls) :
    matches[linkCalls[c].cand].confidence \in {"HIGH", "MEDIUM"}

\* C23: a candidate links a line that is still unlinked when its turn comes,
\* the links made earlier in the run included: a line whose link write has
\* succeeded receives no later link write in the same run
C23_OneWritePerLine ==
  \A c \in 1..Len(linkCalls) : \A d \in 1..Len(linkCalls) :
    (c < d /\ linkCalls[c].state \in {"ok", "resolved"}) =>
      linkCalls[d].lineId # linkCalls[c].lineId

\* C28: a line that had an inventory link when the run started (the page's
\* copy of the recipe is the one loaded before the run) gets no link write,
\* and its stored row is the same after every step of the run
C28_LinkedLinesKept ==
  [][\A k \in 1..Len(recipe.ingredients) :
       Truthy(recipe.ingredients[k].ingredientId) =>
         /\ \A c \in 1..Len(linkCalls') : linkCalls'[c].lineId # recipe.ingredients[k].id
         /\ \A x \in 1..Len(recipe_ingredients) :
              recipe_ingredients[x].id = recipe.ingredients[k].id =>
                recipe_ingredients'[x] = recipe_ingredients[x]]_vars

\* the run is over, a candidate was linked to one line, and another line of
\* the same name, linked before the run, has had no link write
C28_Witness ==
  /\ LoopOver
  /\ \E c \in LinkCallsIn({"resolved"}) : \E x \in 1..Len(recipe_ingredients) :
       /\ recipe_ingredients[x].name = matches[linkCalls[c].cand].recipeIngredientName
       /\ recipe_ingredients[x].ingredient_id = "inv1"
       /\ matches[linkCalls[c].cand].matchedIngredientId = "inv2"
       /\ \A d \in 1..Len(linkCalls) : linkCalls[d].lineId # recipe_ingredients[x].id

\* C24: during a run started with no unlinked line or with an empty inventory
\* snapshot, no link write is issued, no prompt is sent to the matching
\* model, no stored line and no line of the page changes, and the count of
\* linked lines stays zero
C24_NothingToReconcile ==
  [][(linkPc # "done" /\ (UnmatchedNames(recipe) = <<>> \/ inventoryIngredients = <<>>)) =>
       /\ linkCalls' = <<>>
       /\ ~modelCalled'
       /\ recipe_ingredients' = recipe_ingredients
       /\ recipe' = recipe
       /\ linked' = 0
       /\ matchMessage' # "LINKED"]_vars

\* a run over a recipe with unlinked lines and an empty inventory snapshot
\* has ended
C24_Witness ==
  /\ linkPc = "done"
  /\ inventoryIngredients = <<>>
  /\ UnmatchedNames(recipe) # <<>>
  /\ matchMessage = "NO_MATCH"
  /\ ~matching

\* C8 as stated: when the loop is over, the count equals the number of
\* distinct ingredient lines whose link was set by a link write of the run.
C8_CountIsDistinctLines ==
  LoopOver =>
    linked = Cardinality({linkCalls[c].lineId : c \in LinkCallsIn({"resolved"})})

\* C9: a failed link write changes neither the count nor the course of the
\* loop: when the loop is over, the candidates with a link write are exactly
\* those which the policy accepts and for which the page's copy of the recipe
\* has an unlinked line of that name, the count is the number of link writes
\* that succeeded, and no error message is shown.
C9_LinkFailureSkipped ==
  /\ LinkCallsIn({"rejected"}) # {} => matchMessage # "ERROR"
  /\ linkPc = "loop" /\ m > Len(matches) =>
       /\ {linkCalls[c].cand : c \in 1..Len(linkCalls)} =
            {k \in 1..Len(matches) :
               Accepts(matches[k]) /\ FindLine(recipe, matches[k].recipeIngredientName) # 0}
       /\ linked = Cardinality(LinkCallsIn({"resolved"}))
  /\ linkPc = "done" /\ LinkCallsIn({"rejected"}) # {} =>
       /\ matchMessage \in {"LINKED", "NO_MATCH"}
       /\ linked = Cardinality(LinkCallsIn({"resolved"}))
       /\ ~matching

C9_Witness ==
  /\ linkPc = "done"
  /\ Len(linkCalls) = 2
  /\ linkCalls[1].state = "rejected"
  /\ linkCalls[2].state = "resolved"
  /\ linked = 1
  /\ matchMessage = "LINKED"

(***************************************************************************)
(* Import: specification                                                   *)
(***************************************************************************)
\* values of '@type'
TypeRecipe == [array |-> FALSE, names |-> <<"Recipe">>]

TypeWebSite == [array |-> FALSE, names |-> <<"WebSite">>]

TypeNone == [array |-> FALSE, names |-> <<>>]

TypeThingRecipe == [array |-> TRUE, names |-> <<"Thing", "Recipe">>]

TypeArticle == [array |-> TRUE, names |-> <<"Article">>]

\* a JSON object of the given type; its name is given by its place in the
\* document (Placed); yield and durations are texts, <<>> when absent
Node(type) ==
  [type |-> type, name |-> "",
   recipeIngredient |-> << <<"2", " ", "g", " ", "x">> >>,
   recipeYield |-> IF type.array THEN <<"6", " ", "p", "a", "r", "t", "s">>
                   ELSE <<"0", ",", "5", " ", "l">>,
   prepTime    |-> IF type.array THEN <<"P", "T", "3", "0", "S">>
                   ELSE <<"P", "T", "1", "H", "3", "0", "M">>,
   cookTime    |-> IF type.array THEN <<>> ELSE <<"4", "5", " ", "m", "i", "n">>]

\* the contents of the structured-metadata blocks of the model
SampleBlocks == {
  [kind |-> "invalid"],
  [kind |-> "object", value |-> Node(TypeRecipe)],
  [kind |-> "object", value |-> Node(TypeWebSite)],
  [kind |-> "array", items |-> <<Node(TypeArticle), Node(TypeRecipe)>>],
  [kind |-> "object",
   value |-> [type |-> TypeNone, name |-> "", recipeIngredient |-> <<>>,
              recipeYield |-> <<>>, prepTime |-> <<>>, cookTime |-> <<>>,
              graph |-> <<Node(TypeWebSite), Node(TypeThingRecipe)>>]],
  [kind |-> "object",
   value |-> [type |-> TypeRecipe, name |-> "", recipeIngredient |-> <<>>,
              recipeYield |-> <<>>, prepTime |-> <<>>, cookTime |-> <<>>,
              graph |-> <<>>]] }

\* number of structured-metadata blocks of a document
MaxBlocks == 3

\* the name of the k-th object of the b-th block
NodeName(b, k) ==
  << <<"n11", "n12">>, <<"n21", "n22">>, <<"n31", "n32">>, <<"n41", "n42">>,
     <<"n51", "n52">> >>[b][k]

\* block number b with its objects named after their place
Placed(block, b) ==
  IF block.kind = "invalid" THEN block
  ELSE IF block.kind = "array"
  THEN [block EXCEPT !.items = [k \in 1..Len(block.items) |->
                                  [block.items[k] EXCEPT !.name = NodeName(b, k)]]]
  ELSE IF "graph" \in DOMAIN block.value
  THEN [block EXCEPT !.value.graph = [k \in 1..Len(block.value.graph) |->
                                        [block.value.graph[k] EXCEPT !.name = NodeName(b, k)]],
                     !.value.name = "wrapper"]
  ELSE [block EXCEPT !.value.name = NodeName(b, 1)]

\* the text of a page around its blocks: none, or <p>a  <script/>b<style/></p>
SampleBodies == {
  <<>>,
  <<[kind |-> "tag"], [kind |-> "char", c |-> "a"], [kind |-> "char", c |-> " "],
    [kind |-> "char", c |-> " "], [kind |-> "script"], [kind |-> "char", c |-> "b"],
    [kind |-> "style"], [kind |-> "tag"]>> }

\* the documents of the model: the blocks, then the text
Documents ==
  {[b \in 1..Len(blocks) |-> [kind |-> "ldjson", json |-> Placed(blocks[b], b)]] \o body :
     blocks \in SeqsUpTo(SampleBlocks, MaxBlocks), body \in SampleBodies}

\* what fetch(url) may give
FetchOutcomes ==
  {[kind |-> "throws"]}
  \cup {[kind |-> "response", status |-> 200, html |-> doc] : doc \in Documents}
  \cup {[kind |-> "response", status |-> st,
         html |-> <<[kind |-> "ldjson",
                     json |-> Placed([kind |-> "object", value |-> Node(TypeRecipe)], 1)]>>] :
          st \in {404, 503}}

\* what is typed in the URL field: " u ", " "
SampleUrls == {<<" ", "u", " ">>, <<" ">>}

\* what is typed in the text area
SampleTexts == {<<" ">>, <<"a">>}

\* the answers of the text-structuring model
SampleParsed == {
  [name |-> "Tarte", category |-> "DESSERT",
   ingredients |-> <<[name |-> <<"s", "e", "l">>, amount |-> Null, unit |-> Null,
                      optional |-> FALSE]>>],
  [name |-> "Riz"] }

\* the messages of the errors parseRecipeFromText may throw
SampleErrors == {"Impossible de parser la recette", "parseRecipeFromText is not a function", ""}

\* the files that may be chosen
PaprikaFiles ==
  {[container |-> "zip", entries |-> archive] : archive \in Archives}
  \cup {[container |-> "garbage", entries |-> <<>>]}

\* the AddRecipe page as it is mounted; the store is empty
ImportInit ==
  /\ ImportIdle
  /\ paprikaCandidates = <<>>
  /\ paprikaBatchProgress = <<>>
  /\ error = ""
  /\ selected = <<>>
  /\ i = 0
  /\ batchPc = "idle"
  /\ runs = 0
  /\ calls = <<>>
  /\ recipes = <<>>
  /\ recipe_ingredients = <<>>
  /\ ingredients = {}
  /\ LinkIdle
  /\ ParseIdle

ImportNext ==
  \/ \E tab \in {"url", "text", "paprika"} : setActiveTab(tab)
  \/ \E value \in SampleUrls : setImportUrl(value)
  \/ handleImportUrl
  \/ \E outcome \in FetchOutcomes : ServerImportUrl(outcome)
  \/ ImportUrlResolved
  \/ ImportUrlRejected
  \/ \E value \in SampleTexts : setRawText(value)
  \/ handleParseText
  \/ \E parsed \in SampleParsed : ParseTextReturns(parsed)
  \/ \E message \in SampleErrors : ParseTextThrows(message)
  \/ \E file \in PaprikaFiles : handlePaprikaFileChange(file)
  \/ handleImportPaprika
  \/ ServerImportPaprika
  \/ ImportPaprikaResolved
  \/ ImportPaprikaRejected

SpecImport == ImportInit /\ [][ImportNext]_vars

(***************************************************************************)
(* Import: properties                                                      *)
(***************************************************************************)
\* the indices of a set of naturals in increasing order: the j-th smallest
Nth(S, j) == CHOOSE k \in S : Cardinality({x \in S : x < k}) = j - 1

\* C4: when the upload opens as an archive the request is answered 200, and
\* the answer lists, in the order of the archive, exactly one result for each
\* entry that has the recipe extension and decodes, and nothing for the
\* other entries.
C4_MalformedEntrySkipped ==
  paprikaResponse # <<>> /\ paprikaRequest[1].container = "zip" =>
    LET entries == paprikaRequest[1].entries
        body    == paprikaResponse[1].body
        good    == {k \in 1..Len(entries) :
                      /\ entries[k].entryName[2] = ".paprikarecipe"
                      /\ entries[k].data.kind = "json_object"}
    IN  /\ paprikaResponse[1].status = 200
        /\ Len(body) = Cardinality(good)
        /\ \A j \in 1..Len(body) :
             body[j] = JsonImportResult(PaprikaImportResult(entries[Nth(good, j)].data))

\* an archive of a valid entry, an entry with invalid JSON and another valid
\* entry is answered with the two results
C4_Witness ==
  /\ paprikaResponse # <<>>
  /\ paprikaRequest[1].container = "zip"
  /\ Len(paprikaRequest[1].entries) = 3
  /\ paprikaRequest[1].entries[1].data.name = "Tarte"
  /\ paprikaRequest[1].entries[1].entryName[2] = ".paprikarecipe"
  /\ paprikaRequest[1].entries[2].data.kind = "json_error"
  /\ paprikaRequest[1].entries[2].entryName[2] = ".paprikarecipe"
  /\ paprikaRequest[1].entries[3].data.name = "Soupe"
  /\ paprikaRequest[1].entries[3].entryName[2] = ".paprikarecipe"
  /\ paprikaResponse[1].status = 200
  /\ Len(paprikaResponse[1].body) = 2
  /\ paprikaResponse[1].body[1].recipe.name = "Tarte"
  /\ paprikaResponse[1].body[2].recipe.name = "Soupe"

\* the invariant of an ImportResult
RawTextRule(r) ==
  /\ r.parseMethod = "NEEDS_AI" => "rawText" \in DOMAIN r /\ r.ingredients = <<>>
  /\ r.parseMethod # "NEEDS_AI" => "rawText" \notin DOMAIN r

\* C5: every ImportResult produced by the URL import, the archive import and
\* the text parse has its raw text if its parse method is NEEDS_AI, and then
\* no ingredients, and has no raw text otherwise.
C5_RawTextIffNeedsAi ==
  /\ urlResponse # <<>> /\ urlResponse[1].status = 200 => RawTextRule(urlResponse[1].body)
  /\ paprikaResponse # <<>> /\ paprikaResponse[1].status = 200 =>
       \A k \in 1..Len(paprikaResponse[1].body) : RawTextRule(paprikaResponse[1].body[k])
  /\ \A k \in 1..Len(paprikaCandidates) : RawTextRule(paprikaCandidates[k].importResult)
  /\ textResult # <<>> => RawTextRule(textResult[1])

\* a page with structured metadata but no recipe in it is answered with its
\* text "a b" and no ingredients
C5_Witness ==
  /\ urlResponse # <<>>
  /\ urlResponse[1].status = 200
  /\ urlResponse[1].body.parseMethod = "NEEDS_AI"
  /\ urlResponse[1].body.rawText = <<"a", " ", "b">>
  /\ urlResponse[1].body.ingredients = <<>>
  /\ JsonLdBlocks(html[1]) # <<>>

\* the places <<b, k>> of the objects of a document that the claim calls
\* Recipe-typed candidates: block b parses, and its k-th candidate (the
\* object itself, an element of the array, an element of the graph array)
\* has the type "Recipe" or a type list with "Recipe" in it
RecipePlaces(doc) ==
  LET blocks == JsonLdBlocks(doc)
      nodes(b) == IF blocks[b].kind = "invalid" THEN <<>>
                  ELSE IF blocks[b].kind = "array" THEN blocks[b].items
                  ELSE IF "graph" \in DOMAIN blocks[b].value THEN blocks[b].value.graph
                  ELSE <<blocks[b].value>>
  IN  {p \in (1..Len(blocks)) \X (1..2) :
         /\ p[2] <= Len(nodes(p[1]))
         /\ \E t \in 1..Len(nodes(p[1])[p[2]].type.names) :
              nodes(p[1])[p[2]].type.names[t] = "Recipe"}

C11_NeedsAiRoutedToText ==
  [][(/\ importingUrl /\ ~importingUrl'
      /\ urlResponse # <<>>
      /\ ResponseOk(urlResponse[1].status)
      /\ urlResponse[1].body.parseMethod = "NEEDS_AI")
       => /\ activeTab' = "text"
          /\ rawText' = urlResponse[1].body.rawText
          /\ form' = form
          /\ toast' # "Recette importee avec succes !"]_vars

\* C12: when the page fetch answers with a status that is not ok, the server
\* reads no document and answers 400 with an error text that carries the
\* status of the fetch and with no import result; the caller gets that
\* message as its error, and neither the form, the text area nor the toast
\* is written
C12_FetchFailureReported ==
  /\ [](fetchResponse # <<>> /\ ~ResponseOk(fetchResponse[1].status)
          => /\ html = <<>>
             /\ urlResponse # <<>>
             /\ urlResponse[1].status = 400
             /\ DOMAIN urlResponse[1].body = {"error"}
             /\ urlResponse[1].body.error =
                  (CASE fetchResponse[1].status = 404 -> "Impossible de charger l'URL (404)"
                     [] fetchResponse[1].status = 503 -> "Impossible de charger l'URL (503)"))
  /\ [][(/\ importingUrl /\ ~importingUrl'
          /\ fetchResponse # <<>>
          /\ ~ResponseOk(fetchResponse[1].status))
           => /\ error' =
                   (CASE fetchResponse[1].status = 404 ->
                           "API Error: 400 - Impossible de charger l'URL (404)"
                      [] fetchResponse[1].status = 503 ->
                           "API Error: 400 - Impossible de charger l'URL (503)")
              /\ UNCHANGED <<form, rawText, activeTab, toast, textResult>>]_vars

\* the caller has got the error of a fetch that answered 404
C12_Witness ==
  /\ error = "API Error: 400 - Impossible de charger l'URL (404)"
  /\ ~importingUrl
  /\ form = EmptyForm


\* the import results of a state carry these tags: structured and archive
\* are the parse-method tags of a JSON-LD result and of an archive entry
ResultsTagged(structured, archive) ==
  LET tagged(r, confidence, parseMethod) ==
        r.confidence = confidence /\ r.parseMethod = parseMethod
  IN  /\ (urlResponse # <<>> /\ ResponseOk(urlResponse[1].status)) =>
            /\ urlResponse[1].body.confidence \in {"HIGH", "MEDIUM", "LOW"}
            /\ urlResponse[1].body.parseMethod \in
                 {structured, archive, "AI_TEXT", "NEEDS_AI"}
            /\ IF ScanBlocks(JsonLdBlocks(html[1])) # <<>>
               THEN tagged(urlResponse[1].body, "HIGH", structured)
               ELSE tagged(urlResponse[1].body, "LOW", "NEEDS_AI")
      /\ (paprikaResponse # <<>> /\ ResponseOk(paprikaResponse[1].status)) =>
            \A k \in 1..Len(paprikaResponse[1].body) :
              tagged(paprikaResponse[1].body[k], "MEDIUM", archive)
      /\ \A k \in 1..Len(paprikaCandidates) :
            tagged(paprikaCandidates[k].importResult, "MEDIUM", archive)
      /\ textResult # <<>> => tagged(textResult[1], "MEDIUM", "AI_TEXT")

C19_ServingsAndTimes ==
  LET wellFormed(r) ==
        "servings" \in DOMAIN r.recipe =>
          /\ r.recipe.servings \in Nat /\ r.recipe.servings >= 1
          /\ r.recipe.prepTime \in Nat
          /\ r.recipe.cookTime \in Nat
  IN  /\ (urlResponse # <<>> /\ ResponseOk(urlResponse[1].status)) =>
            /\ wellFormed(urlResponse[1].body)
            /\ LET recipeData == ScanBlocks(JsonLdBlocks(html[1]))
               IN  (/\ recipeData # <<>>
                    /\ \A k \in 1..Len(recipeData[1].recipeYield) :
                         recipeData[1].recipeYield[k] \notin Digits)
                     => urlResponse[1].body.recipe.servings = 4
      /\ (paprikaResponse # <<>> /\ ResponseOk(paprikaResponse[1].status)) =>
            \A k \in 1..Len(paprikaResponse[1].body) :
              wellFormed(paprikaResponse[1].body[k])

(***************************************************************************)
(* The parsing helpers of the server: specification.  A behaviour is one   *)
(* call of parseIngredientLine or of parseTime on one text.                *)
(***************************************************************************)
\* longest quantity prefix and longest duration text that are enumerated
MaxQuantityLen == 3

MaxDurationLen == 4

\* ingredient lines: every text of quantity characters up to the bound (and
\* two longer ones), followed by one of the rests
ParseLines ==
  LET quantities ==
        SeqsUpTo({"1", "2", "0", "/", ",", "HALF", " "}, MaxQuantityLen)
          \cup {<<"1", ".", "5", " ">>, <<"1", " ", "1", "/", "2", " ">>}
      rests ==
        { <<>>,
          <<"s", "e", "l">>,
          <<"g", " ", "s", "e", "l">>,
          <<"k", "g", " ", "d", "e", " ", "r", "i", "z">>,
          <<"G", "o", "u", "s", "s", "e", "s", " ", "d", "'", "a", "i", "l">>,
          <<"g", "o", "u", "s", "s", "e", " ", "a", "i", "l">>,
          <<"l", "a", "i", "t">>,
          <<"L", " ", "l", "a", "i", "t">>,
          <<"c", "l", "o", "u">>,
          <<"s", "e", "l", " ", "?">>,
          <<"s", "e", "l", " ", "O", "p", "t", "i", "o", "n", "n", "e", "l">>,
          <<"F", "A", "C", "U", "L", "T", "A", "T", "I", "F", " ", "x">>,
          <<"o", "p", "t", "i", "o", "n", "s">>,
          <<"d", "e", " ", "l", "a", " ", "n", "o", "i", "x">> }
  IN  {q \o r : q \in quantities, r \in rests}

\* duration texts: every text of these characters up to the bound, and some
\* longer ones
Durations ==
  SeqsUpTo({"P", "T", "H", "M", "1", "2"}, MaxDurationLen)
    \cup { <<"P", "T", "1", "H", "3", "0", "M">>,
           <<"P", "T", "4", "5", "M">>,
           <<"P", "T", "3", "0", "S">>,
           <<"P", "1", "D", "T", "2", "H">>,
           <<"4", "5", " ", "m", "i", "n", "u", "t", "e", "s">>,
           <<"1", " ", "h", " ", "3", "0">>,
           <<"m", "i", "n">>,
           <<" ">> }

\* ingredients.map(parseIngredientLine): the call on one line
CallParseIngredientLine ==
  /\ parseCall # <<>> /\ parseResult = <<>>
  /\ parseCall[1].fn = "parseIngredientLine"
  /\ parseResult' = <<parseIngredientLine(parseCall[1].arg)>>
  /\ UNCHANGED <<parseCall, batchVars, storeVars, linkVars, importVars>>

\* parseTime(recipeData.prepTime): the call on one text
CallParseTime ==
  /\ parseCall # <<>> /\ parseResult = <<>>
  /\ parseCall[1].fn = "parseTime"
  /\ parseResult' = <<parseTime(parseCall[1].arg)>>
  /\ UNCHANGED <<parseCall, batchVars, storeVars, linkVars, importVars>>

ParseInit ==
  /\ parseCall \in {<<[fn |-> "parseIngredientLine", arg |-> line]>> : line \in ParseLines}
                     \cup {<<[fn |-> "parseTime", arg |-> iso]>> : iso \in Durations}
  /\ parseResult = <<>>
  /\ BatchIdle
  /\ recipes = <<>>
  /\ recipe_ingredients = <<>>
  /\ ingredients = {}
  /\ LinkIdle
  /\ ImportIdle

ParseNext ==
  \/ CallParseIngredientLine
  \/ CallParseTime

SpecParse == ParseInit /\ [][ParseNext]_vars

\* C13: parseIngredientLine and parseTime return a value of their result
\* type for every text: an ingredient with a name, an amount that is null or
\* a number, a unit that is null or a text and a boolean optional flag, and
\* a number of minutes; for the empty text and for white space alone the
\* ingredient is name "", amount null, unit null, optional false
C13_ParsersTotal ==
  parseResult # <<>> =>
    LET arg == parseCall[1].arg
        res == parseResult[1]
    IN  IF parseCall[1].fn = "parseIngredientLine"
        THEN /\ DOMAIN res = {"name", "amount", "unit", "optional"}
             /\ res.name \in Seq({arg[k] : k \in 1..Len(arg)})
             /\ res.amount = Null \/ res.amount \in Nat \X Nat
             /\ res.unit = Null \/ res.unit \in Seq({arg[k] : k \in 1..Len(arg)})
             /\ res.optional \in BOOLEAN
             /\ (\A k \in 1..Len(arg) : arg[k] = " ")
                  => res = [name |-> <<>>, amount |-> Null, unit |-> Null,
                            optional |-> FALSE]
        ELSE res \in Nat

\* both helpers have returned, one of them on a text of white space
C13_Witness ==
  /\ parseResult # <<>>
  /\ parseCall[1].fn = "parseIngredientLine"
  /\ parseCall[1].arg = <<" ", " ">>
  /\ parseResult[1].name = <<>>


\* C14: the unit is a whole token of the lexicon: when the first word after
\* the quantity is a unit of the lexicon (in any letter case) and text
\* follows it, that word is the unit; otherwise the unit is null and, when
\* no connector opens it, the text after the quantity is the name
C14_UnitIsWholeToken ==
  (parseResult # <<>> /\ parseCall[1].fn = "parseIngredientLine") =>
    LET cleaned == Trim(parseCall[1].arg)
        rest    == Drop(cleaned, LeadingIn(cleaned, QuantityClass))
        wlen    == LeadingIn(rest, {rest[k] : k \in 1..Len(rest)} \ Whitespace)
        token   == Take(rest, wlen)
        isUnit  == \E k \in 1..Len(UnitLexicon) : LowerSeq(token) = UnitLexicon[k]
        opens   == \E k \in 1..Len(Connectors) : StartsWithI(rest, Connectors[k])
    IN  rest # <<>> =>
          IF isUnit /\ wlen < Len(rest)
          THEN parseResult[1].unit = token
          ELSE /\ parseResult[1].unit = Null
               /\ ~opens => parseResult[1].name = rest


\* C15: the amount is computed from the leading quantity token: a single
\* fraction glyph gives its table value, a/b gives a divided by b, digits
\* with an optional "." or "," decimal part give that number, no quantity
\* token gives null; and the name is taken from the text behind the
\* quantity, so that no character of the quantity ends up in it
C15_AmountFromQuantity ==
  (parseResult # <<>> /\ parseCall[1].fn = "parseIngredientLine") =>
    LET cleaned == Trim(parseCall[1].arg)
        qlen    == LeadingIn(cleaned, QuantityClass)
        qt      == Trim(Take(cleaned, qlen))
        rest    == Drop(cleaned, qlen)
        na      == LeadingIn(qt, Digits)
        sep     == IF na < Len(qt) THEN qt[na + 1] ELSE ""
        b       == Drop(qt, na + 1)
        digits  == na > 0 /\ (\A k \in 1..Len(b) : b[k] \in Digits)
        a       == DigitsVal(Take(qt, na))
        amount  == parseResult[1].amount
    IN  /\ (Len(qt) = 1 /\ qt[1] \in Glyphs) => amount = fractionMap(qt[1])
        /\ (digits /\ sep = "/" /\ b # <<>> /\ DigitsVal(b) # 0)
             => amount = Rat(a, DigitsVal(b))
        /\ (digits /\ sep \in {".", ","} /\ b # <<>>)
             => amount = Rat(a * Pow10(Len(b)) + DigitsVal(b), Pow10(Len(b)))
        /\ (digits /\ na = Len(qt)) => amount = Rat(a, 1)
        /\ qt = <<>> => amount = Null
        /\ \E k \in 0..Len(rest) : parseResult[1].name = Drop(rest, k)


\* C16: for a non-empty line, optional is true exactly when the line holds
\* "optionnel", "facultatif" (in any letter case) or a "?", whatever amount,
\* unit and name came out of it
C16_OptionalIffMarked ==
  (/\ parseResult # <<>>
   /\ parseCall[1].fn = "parseIngredientLine"
   /\ parseCall[1].arg # <<>>) =>
    LET low    == LowerSeq(parseCall[1].arg)
        has(p) == \E k \in 0..(Len(low) - Len(p)) : SubSeq(low, k + 1, k + Len(p)) = p
    IN  parseResult[1].optional <=>
          \/ has(<<"o", "p", "t", "i", "o", "n", "n", "e", "l">>)
          \/ has(<<"f", "a", "c", "u", "l", "t", "a", "t", "i", "f">>)
          \/ has(<<"?">>)

\* a line marked in capitals, whose unit and name are cut, is optional
C16_Witness ==
  /\ parseResult # <<>>
  /\ parseCall[1].fn = "parseIngredientLine"
  /\ parseCall[1].arg = <<"1", " ", "F", "A", "C", "U", "L", "T", "A", "T", "I", "F", " ", "x">>
  /\ parseResult[1].optional
  /\ parseResult[1].amount = <<1, 1>>


\* C17: parseTime returns a number of minutes that is a natural number: for
\* a text of the form PT[hH][mM] it is 60 * h + m (an absent part counts 0),
\* for any other text it is the first run of digits of the text, and 0 when
\* the text holds no digit
C17_MinutesOfDuration ==
  (parseResult # <<>> /\ parseCall[1].fn = "parseTime") =>
    LET iso  == parseCall[1].arg
        r0   == Drop(iso, 2)
        nh   == LeadingIn(r0, Digits)
        hasH == nh > 0 /\ nh < Len(r0) /\ r0[nh + 1] = "H"
        r1   == IF hasH THEN Drop(r0, nh + 1) ELSE r0
        nm   == LeadingIn(r1, Digits)
        hasM == nm > 0 /\ nm < Len(r1) /\ r1[nm + 1] = "M"
        r2   == IF hasM THEN Drop(r1, nm + 1) ELSE r1
        whole == Len(iso) >= 2 /\ iso[1] = "P" /\ iso[2] = "T" /\ r2 = <<>>
        start == CHOOSE k \in 1..(Len(iso) + 1) :
                  /\ k <= Len(iso) => iso[k] \in Digits
                  /\ \A j \in 1..(k - 1) : iso[j] \notin Digits
        run   == Drop(iso, start - 1)
    IN  /\ parseResult[1] \in Nat
        /\ parseResult[1] =
             IF whole
             THEN 60 * (IF hasH THEN DigitsVal(Take(r0, nh)) ELSE 0)
                    + (IF hasM THEN DigitsVal(Take(r1, nm)) ELSE 0)
             ELSE DigitsVal(Take(run, LeadingIn(run, Digits)))


\* C21: field assembly gives back its own output: a canonical line without
\* amount and unit is written in metadata as its name, and
\* parseIngredientLine on that text returns the same amount, unit and name
C21_AssemblyIdempotent ==
  (parseResult # <<>> /\ parseCall[1].fn = "parseIngredientLine") =>
    LET line  == parseResult[1]
        again == parseIngredientLine(line.name)
    IN  (line.amount = Null /\ line.unit = Null) =>
          /\ again.amount = Null
          /\ again.unit = Null
          /\ again.name = line.name

\* C30: the amount returned by parseIngredientLine is null or a finite
\* number that is not negative; it is never NaN and never infinite
C30_AmountFinite ==
  (parseResult # <<>> /\ parseCall[1].fn = "parseIngredientLine") =>
    \/ parseResult[1].amount = Null
    \/ /\ parseResult[1].amount \in Nat \X Nat
       /\ parseResult[1].amount[2] > 0

====
